---- MODULE Spec2Model ----
(***************************************************************************)
(* The affinity ("value game") engine of the WaifuBot plugin:              *)
(* systems/value_game.py, with the callers that drive it                   *)
(* (components/event_listener/on_message.py, components/commands/          *)
(* affection.py).                                                          *)
(*                                                                         *)
(* Time is the integer number of seconds time.time() returns.  The float   *)
(* arithmetic of the delta pipeline is modelled by exact fractions; the    *)
(* product of the multipliers differs from its exact value by a relative   *)
(* error near 1e-16, so round() can only differ from exact rounding where  *)
(* the exact product is k + 1/2, and there the outcome of the IEEE-754     *)
(* double evaluation is tabulated (TieRoundsDown).                         *)
(***************************************************************************)
EXTENDS Integers, Sequences, FiniteSets, TLC

VARIABLES
    value,                \* ValueGame._value
    max_value,            \* ValueGame._max_value
    max_manner_change,    \* ValueGame._max_manner_change
    manner_descriptions,  \* ValueGame._manner_descriptions
    has_preset,           \* ValueGame._has_preset
    status_file,          \* ValueGame._status_file
    state,                \* ValueGame._state (a dict: a function on the keys present)
    value_change,         \* ValueGame._value_change
    storage,              \* the plugin storage: key -> the bytes last written
    failing,              \* the plugin services that raise when called
    default_character,    \* the "character" entry of the plugin configuration
    now,                  \* the clock read by time.time()
    nops,                 \* number of operations performed so far
    last,                 \* the last operation performed and what it observed
    hist,                 \* the latest processed utterances and their deltas
    tasks                 \* the handlers in flight on the event loop

vars == <<value, max_value, max_manner_change, manner_descriptions, has_preset,
          status_file, state, value_change, storage, failing,
          default_character, now, nops, last, hist, tasks>>

----------------------------------------------------------------------------
(* Bounds of the model *)

MaxOps == 4
\* the number of messages a conversation of the message handler runs to
MaxMessages == 3

(* Program constants *)

min_value == -100
DefaultMaxValue == 100
DefaultMaxMannerChange == 10
cooldown_seconds == 30
recent_window_seconds == 600
repeat_window_seconds == 120
decay_interval_seconds == 43200
MaxDecayAmount == 10
MaxRecentEvents == 60

----------------------------------------------------------------------------
(* Python values *)

\* None, and an optional integer i as <<i>>
None == <<>>
Some(i) == <<i>>

\* the empty dict {}
EmptyDict == [k \in {} |-> 0]

\* d.get(k, dflt)
Get(d, k, dflt) == IF k \in DOMAIN d THEN d[k] ELSE dflt

\* d[k] = v
Put(d, k, v) ==
    IF k \in DOMAIN d THEN [d EXCEPT ![k] = v]
    ELSE [x \in (DOMAIN d) \cup {k} |-> IF x = k THEN v ELSE d[x]]

Max(a, b) == IF a >= b THEN a ELSE b
Min(a, b) == IF a <= b THEN a ELSE b
Abs(a) == IF a >= 0 THEN a ELSE -a
Sign(a) == IF a > 0 THEN 1 ELSE IF a < 0 THEN -1 ELSE 0


----------------------------------------------------------------------------
(* The character cards (config/cards/<character>.yaml) the model loads.    *)
(* "neko" sets neither value_descriptions nor max_manner_change; "tsun"    *)
(* sets both; "off" is the switch that disables the engine.                *)

Cards ==
    [neko |-> EmptyDict,
     tsun |-> [value_descriptions |->
                   << [max |-> 1, description |-> "cold"],
                      [max |-> 3, description |-> "warm"] >>,
               max_manner_change |-> 1]]

Characters == {"neko", "tsun", "off"}
Launchers == {"u1"}

\* f"value_game_{character}_{launcher_id}"
StatusFileOf(character, launcher_id) ==
    "value_game_" \o character \o "_" \o launcher_id

\* the state dict load_config and _load_state build for a fresh relationship
FreshState(v) ==
    [version |-> 1, value |-> v, last_event_ts |-> 0, last_change_ts |-> 0,
     last_decay_ts |-> 0, recent_events |-> <<>>, pos_streak |-> 0,
     neg_streak |-> 0, last_user_text_norm |-> <<>>, repeat_count |-> 0,
     repeat_last_ts |-> 0]

----------------------------------------------------------------------------
(* The engine as one record, so that the methods compose as the code runs  *)
(* them.  The record carries the plugin the engine calls (storage,         *)
(* failing) and whether the call in progress has let an exception escape   *)
(* to its caller (raised).                                                 *)

Self ==
    [value |-> value, max_value |-> max_value,
     max_manner_change |-> max_manner_change,
     manner_descriptions |-> manner_descriptions,
     has_preset |-> has_preset, status_file |-> status_file,
     state |-> state, value_change |-> value_change, storage |-> storage,
     failing |-> failing, raised |-> FALSE]

Become(e) ==
    \E x \in {e} :
    /\ value' = x.value
    /\ max_value' = x.max_value
    /\ max_manner_change' = x.max_manner_change
    /\ manner_descriptions' = x.manner_descriptions
    /\ has_preset' = x.has_preset
    /\ status_file' = x.status_file
    /\ state' = x.state
    /\ value_change' = x.value_change
    /\ storage' = x.storage
    /\ failing' = x.failing

\* ValueGame.__init__ (the storage is the plugin's, not the engine's)
NewEngine(sto) ==
    [value |-> 0, max_value |-> DefaultMaxValue,
     max_manner_change |-> DefaultMaxMannerChange,
     manner_descriptions |-> <<>>, has_preset |-> TRUE, status_file |-> "",
     state |-> EmptyDict, value_change |-> None, storage |-> sto,
     failing |-> {}, raised |-> FALSE]

\* The stored bytes.  json.dumps writes the state dict (string keys; int,
\* float, string and list values) as a JSON object that json.loads reads
\* back to an equal dict, so bytes holding a JSON object are the dict they
\* hold.  The other bytes a slot can hold:
EmptyBytes == [bytes |-> "empty"]              \* b""
Unparseable == [bytes |-> "unparseable"]       \* json.loads raises on them
JsonArray == [bytes |-> "array"]               \* "[]": JSON, not an object

\* isinstance(data, dict), for data = json.loads(bytes)
IsDict(data) == "bytes" \notin DOMAIN data

\* _save_value_to_status_file without the except of lines 515-516
SaveValueToStatusFileUncaught(e) ==
    IF "write" \in e.failing THEN [e EXCEPT !.raised = TRUE]
    ELSE LET st == IF e.state = EmptyDict
                   THEN [version |-> 1, value |-> e.value]
                   ELSE Put(Put(e.state, "version", 1), "value", e.value)
         IN  [e EXCEPT !.state = st,
                       !.storage = Put(e.storage, e.status_file, st)]

\* ValueGame._save_value_to_status_file: lines 508-512 normalise the state
\* dict, 513-514 write it, 515-516 swallow the failure of the write
SaveValueToStatusFile(e) ==
    LET st == IF e.state = EmptyDict
              THEN [version |-> 1, value |-> e.value]
              ELSE LET v == Get(e.state, "version", 1)
                   IN  Put(Put(e.state, "version", IF v = 0 THEN 1 ELSE v),
                           "value", e.value)
    IN  IF "write" \in e.failing
        THEN [e EXCEPT !.state = st]
        ELSE [e EXCEPT !.state = st,
                       !.storage = Put(e.storage, e.status_file, st)]

\* _load_state without lines 250-253: every record read as a bare score
LoadStateScoreOnly(e, data) ==
    LET v == IF IsDict(data) THEN Get(data, "value", 0) ELSE 0
    IN  [e EXCEPT !.value = v, !.state = FreshState(v)]

\* _load_state without lines 255-256: a record without version loads as 0
LoadStateDroppingScore(e, data) ==
    IF IsDict(data) /\ "version" \in DOMAIN data
    THEN [e EXCEPT !.state = data, !.value = Get(data, "value", 0)]
    ELSE [e EXCEPT !.value = 0, !.state = FreshState(0)]

\* ValueGame._load_state
LoadState(e, data) ==
    IF IsDict(data) /\ "version" \in DOMAIN data
    THEN [e EXCEPT !.state = data, !.value = Get(data, "value", 0)]
    ELSE LET v == IF IsDict(data) THEN Get(data, "value", 0) ELSE 0
         IN  [e EXCEPT !.value = v, !.state = FreshState(v)]

RECURSIVE MaxOfBands(_)
MaxOfBands(ds) ==
    IF Len(ds) = 1 THEN ds[1].max ELSE Max(ds[1].max, MaxOfBands(Tail(ds)))

\* _calc_max_value without the floor of line 110
CalcMaxValueWithoutFloor(ds) ==
    IF ds = <<>> THEN DefaultMaxValue ELSE MaxOfBands(ds)

\* ValueGame._calc_max_value
CalcMaxValue(ds) ==
    LET m == IF ds = <<>> THEN DefaultMaxValue ELSE MaxOfBands(ds)
    IN  Max(1, m)

\* ValueGame.load_config
LoadConfig(e, character, launcher_id) ==
    IF character = "off"
    THEN [e EXCEPT !.has_preset = FALSE]
    ELSE
      LET key == StatusFileOf(character, launcher_id)
          e1 == [e EXCEPT !.has_preset = TRUE, !.status_file = key]
          fresh == SaveValueToStatusFile(
                       [e1 EXCEPT !.value = 0, !.state = FreshState(0)])
          \* lines 52-92: read the record; start fresh and save when there
          \* is none (55, 58-74) and when the read or json.loads raises
          \* (75-92)
          e2 == IF "read" \in e1.failing THEN fresh
                ELSE IF key \notin DOMAIN e1.storage THEN fresh
                ELSE IF e1.storage[key] = EmptyBytes THEN fresh
                ELSE IF e1.storage[key] = Unparseable THEN fresh
                ELSE LoadState(e1, e1.storage[key])
          ds == Get(Cards[character], "value_descriptions", <<>>)
          e3 == [e2 EXCEPT
                    !.manner_descriptions = ds,
                    !.max_manner_change =
                        Get(Cards[character], "max_manner_change",
                            DefaultMaxMannerChange),
                    !.max_value = CalcMaxValue(ds)]
          \* lines 99-104: clamp the loaded value, saving when it moved
          e4 == IF e3.value > e3.max_value
                THEN SaveValueToStatusFile([e3 EXCEPT !.value = e3.max_value])
                ELSE e3
          e5 == IF e4.value < min_value
                THEN SaveValueToStatusFile([e4 EXCEPT !.value = min_value])
                ELSE e4
      IN  e5

\* change_manner_value without the clamp of line 494
ChangeMannerValueUnclamped(e, amount, t) ==
    LET v == e.value + amount
        st == Put(Put(e.state, "value", v), "last_change_ts", t)
    IN  SaveValueToStatusFile([e EXCEPT !.value = v, !.state = st])

\* ValueGame.change_manner_value
ChangeMannerValue(e, amount, t) ==
    LET v == Max(min_value, Min(e.max_value, e.value + amount))
        st == Put(Put(e.state, "value", v), "last_change_ts", t)
    IN  SaveValueToStatusFile([e EXCEPT !.value = v, !.state = st])

\* reset_value starting the relationship over: the state dict of line 58
\* for the assignments of lines 523-524
ResetValueToFreshState(e, t) ==
    SaveValueToStatusFile(
        [e EXCEPT !.value = 0,
                  !.state = Put(FreshState(0), "last_change_ts", t)])

\* ValueGame.reset_value
ResetValue(e, t) ==
    LET st == Put(Put(e.state, "value", 0), "last_change_ts", t)
    IN  SaveValueToStatusFile([e EXCEPT !.value = 0, !.state = st])

----------------------------------------------------------------------------
(* Utterances.  A text is a sequence of one-character strings.            *)

Whitespace == {" "}
\* the character class of _is_trivial_message (its ASCII members)
FillerChars == {".", "!", "?", ","}
\* the character class _normalize_user_text removes (its ASCII members)
NormPunctuation == {"!", "?", ",", ".", ";", "'", "(", ")"}

RECURSIVE LStrip(_)
LStrip(t) == IF t # <<>> /\ Head(t) \in Whitespace THEN LStrip(Tail(t)) ELSE t

RECURSIVE RStrip(_)
RStrip(t) ==
    IF t # <<>> /\ t[Len(t)] \in Whitespace
    THEN RStrip(SubSeq(t, 1, Len(t) - 1))
    ELSE t

\* str.strip()
Strip(t) == RStrip(LStrip(t))

\* str.lower()
LowerChar(c) == IF c = "A" THEN "a" ELSE IF c = "B" THEN "b" ELSE c
Lower(t) == [i \in 1..Len(t) |-> LowerChar(t[i])]

\* re.sub(<class>, "", t)
RECURSIVE Remove(_, _)
Remove(t, class) ==
    IF t = <<>> THEN <<>>
    ELSE IF Head(t) \in class THEN Remove(Tail(t), class)
    ELSE <<Head(t)>> \o Remove(Tail(t), class)

\* no message is trivial
IsTrivialMessageNever(text) == FALSE

\* ValueGame._is_trivial_message
IsTrivialMessage(text) ==
    LET t == Strip(text)
    IN  \/ t = <<>>
        \/ Len(t) <= 1
        \/ \A i \in 1..Len(t) : t[i] \in FillerChars

\* ValueGame._normalize_user_text; the 16 hex digits of the SHA-256 digest
\* are modelled by the normalised text itself (an injective fingerprint)
NormalizeUserText(text) ==
    Remove(Remove(Lower(Strip(text)), Whitespace), NormPunctuation)

\* ValueGame._extract_last_user_text_from_memory, on the lines
\* "<speaker>: <content>" of the short-term memory text
RECURSIVE LastContentWhere(_, _)
LastContentWhere(lines, userOnly) ==
    IF lines = <<>> THEN None
    ELSE LET ln == lines[Len(lines)]
             ok == IF userOnly THEN ln.speaker = "user" ELSE ln.speaker # "bot"
         IN  IF ok THEN Some(Strip(ln.content))
             ELSE LastContentWhere(SubSeq(lines, 1, Len(lines) - 1), userOnly)

ExtractLastUserTextFromMemory(memory_content) ==
    LET a == LastContentWhere(memory_content, TRUE)
        b == LastContentWhere(memory_content, FALSE)
    IN  IF a # None THEN a[1] ELSE IF b # None THEN b[1] ELSE <<>>

\* the utterances the model sends
Blank == <<" ">>
Fillers == <<"?", "!">>
Neutral == <<"a", "b">>
Glad == <<"g", "d">>
Love == <<"l", "u", "v">>
Hate == <<"h", "t">>
One == <<"x">>

\* TextAnalyzer.sentiment: the hit counts its dictionaries give these texts
Sentiment(text) ==
    IF text = Glad THEN [positive_num |-> 1, negative_num |-> 0]
    ELSE IF text = Love THEN [positive_num |-> 3, negative_num |-> 0]
    ELSE IF text = Hate THEN [positive_num |-> 0, negative_num |-> 3]
    ELSE [positive_num |-> 0, negative_num |-> 0]

----------------------------------------------------------------------------
(* The update cycle *)

\* _apply_decay without the cap of line 284
ApplyDecayUncapped(e, t) ==
    LET ld0 == Get(e.state, "last_decay_ts", 0)
        le == Get(e.state, "last_event_ts", 0)
        ld == IF ld0 <= 0 THEN le ELSE ld0
        steps == (t - ld) \div decay_interval_seconds
        stamped == Put(e.state, "last_decay_ts", t)
        v == IF e.value > 0 THEN Max(0, e.value - steps)
             ELSE Min(0, e.value + steps)
    IN  IF ld <= 0 THEN [e EXCEPT !.state = stamped]
        ELSE IF steps <= 0 THEN e
        ELSE SaveValueToStatusFile(
                 [e EXCEPT !.value = v, !.state = Put(stamped, "value", v)])

\* _apply_decay stamping last_decay_ts before it measures the inactivity
\* (line 277 ahead of line 278): no inactivity is ever found
ApplyDecayStampingFirst(e, t) ==
    [e EXCEPT !.state = Put(e.state, "last_decay_ts", t)]

\* ValueGame._apply_decay
ApplyDecay(e, t) ==
    LET ld0 == Get(e.state, "last_decay_ts", 0)
        le == Get(e.state, "last_event_ts", 0)
        ld == IF ld0 <= 0 THEN le ELSE ld0
        inactive_seconds == t - ld
        steps == inactive_seconds \div decay_interval_seconds
        decay_amount == Min(MaxDecayAmount, steps)
        stamped == Put(e.state, "last_decay_ts", t)
        v == IF e.value > 0 THEN Max(0, e.value - decay_amount)
             ELSE Min(0, e.value + decay_amount)
    IN  IF ld <= 0 THEN [e EXCEPT !.state = stamped]
        ELSE IF inactive_seconds < decay_interval_seconds THEN e
        ELSE IF decay_amount <= 0 THEN e
        ELSE IF e.value = 0
             THEN SaveValueToStatusFile([e EXCEPT !.state = stamped])
        ELSE SaveValueToStatusFile(
                 [e EXCEPT !.value = v, !.state = Put(stamped, "value", v)])

\* _update_repeat_state without the window of line 316
UpdateRepeatStateIgnoringWindow(e, user_text_norm, t) ==
    LET last_norm == Get(e.state, "last_user_text_norm", <<>>)
        count == IF user_text_norm = <<>> THEN 0
                 ELSE IF user_text_norm = last_norm
                      THEN Get(e.state, "repeat_count", 0) + 1
                      ELSE 1
    IN  [e EXCEPT !.state =
            Put(Put(Put(e.state, "repeat_count", count), "repeat_last_ts", t),
                "last_user_text_norm", user_text_norm)]

\* _update_repeat_state with 0 for the 1 of line 319
UpdateRepeatStateRestartingAtZero(e, user_text_norm, t) ==
    LET last_norm == Get(e.state, "last_user_text_norm", <<>>)
        last_ts == Get(e.state, "repeat_last_ts", 0)
        count == IF user_text_norm = <<>> THEN 0
                 ELSE IF /\ user_text_norm = last_norm
                         /\ t - last_ts <= repeat_window_seconds
                      THEN Get(e.state, "repeat_count", 0) + 1
                      ELSE 0
    IN  [e EXCEPT !.state =
            Put(Put(Put(e.state, "repeat_count", count), "repeat_last_ts", t),
                "last_user_text_norm", user_text_norm)]

\* ValueGame._update_repeat_state
UpdateRepeatState(e, user_text_norm, t) ==
    LET last_norm == Get(e.state, "last_user_text_norm", <<>>)
        last_ts == Get(e.state, "repeat_last_ts", 0)
        count == IF user_text_norm = <<>> THEN 0
                 ELSE IF /\ user_text_norm = last_norm
                         /\ t - last_ts <= repeat_window_seconds
                      THEN Get(e.state, "repeat_count", 0) + 1
                      ELSE 1
    IN  [e EXCEPT !.state =
            Put(Put(Put(e.state, "repeat_count", count), "repeat_last_ts", t),
                "last_user_text_norm", user_text_norm)]

\* _append_recent_event without the cap of lines 329-330
AppendRecentEventUncapped(e, delta, t) ==
    LET events == Append(Get(e.state, "recent_events", <<>>),
                         [ts |-> t, delta |-> delta])
        cutoff == t - recent_window_seconds
        kept == SelectSeq(events, LAMBDA ev : ev.ts >= cutoff)
    IN  [e EXCEPT !.state = Put(e.state, "recent_events", kept)]

\* ValueGame._append_recent_event
AppendRecentEvent(e, delta, t) ==
    LET events == Append(Get(e.state, "recent_events", <<>>),
                         [ts |-> t, delta |-> delta])
        cutoff == t - recent_window_seconds
        kept == SelectSeq(events, LAMBDA ev : ev.ts >= cutoff)
        capped == IF Len(kept) > MaxRecentEvents
                  THEN SubSeq(kept, Len(kept) - MaxRecentEvents + 1, Len(kept))
                  ELSE kept
    IN  [e EXCEPT !.state = Put(e.state, "recent_events", capped)]

\* ValueGame._count_recent
CountRecent(e, t) ==
    LET events == Get(e.state, "recent_events", <<>>)
        cutoff == t - recent_window_seconds
        live == SelectSeq(events, LAMBDA ev : ev.ts >= cutoff)
    IN  [pos |-> Len(SelectSeq(live, LAMBDA ev : ev.delta > 0)),
         neg |-> Len(SelectSeq(live, LAMBDA ev : ev.delta < 0))]

\* ValueGame._decay_streaks
DecayStreaks(e) ==
    [e EXCEPT !.state =
        Put(Put(e.state, "pos_streak", Max(0, Get(e.state, "pos_streak", 0) - 1)),
            "neg_streak", Max(0, Get(e.state, "neg_streak", 0) - 1))]

\* _update_streaks without the resets of lines 357 and 360
UpdateStreaksWithoutReset(e, delta) ==
    IF delta > 0
    THEN [e EXCEPT !.state =
            Put(e.state, "pos_streak", Get(e.state, "pos_streak", 0) + 1)]
    ELSE IF delta < 0
    THEN [e EXCEPT !.state =
            Put(e.state, "neg_streak", Get(e.state, "neg_streak", 0) + 1)]
    ELSE DecayStreaks(e)

\* ValueGame._update_streaks
UpdateStreaks(e, delta) ==
    IF delta > 0
    THEN [e EXCEPT !.state =
            Put(Put(e.state, "pos_streak", Get(e.state, "pos_streak", 0) + 1),
                "neg_streak", 0)]
    ELSE IF delta < 0
    THEN [e EXCEPT !.state =
            Put(Put(e.state, "neg_streak", Get(e.state, "neg_streak", 0) + 1),
                "pos_streak", 0)]
    ELSE DecayStreaks(e)

----------------------------------------------------------------------------
(* The relationship dynamics.  final_float is the fraction n / d.          *)

\* The arguments <<score clamped to 0..max_value, max_value, base_change,
\* recent count, repeated, in cooldown, streak (capped where its multiplier
\* is)>> at which the exact product is k + 1/2 and the double product of
\* lines 395 / 405 rounds toward zero; at every other tie it rounds away
\* from zero.  Covers the cards of the model and recent counts up to 12;
\* with 60 recent positive events no product of a positive base is a tie.
TieRoundsDown ==
    { <<0, 100, -10, 10, 0, 0, 0>>, <<50, 100, -10, 2, 0, 1, 0>>,
      <<50, 100, -10, 10, 0, 0, 3>>, <<50, 100, -9, 5, 0, 0, 0>>,
      <<50, 100, -8, 11, 0, 0, 0>>, <<50, 100, -7, 9, 0, 0, 0>>,
      <<50, 100, -6, 2, 0, 1, 0>>, <<50, 100, -6, 7, 0, 0, 0>>,
      <<50, 100, -5, 5, 0, 0, 0>>, <<50, 100, -4, 3, 0, 0, 0>>,
      <<50, 100, -4, 9, 0, 1, 0>>, <<50, 100, -3, 1, 0, 0, 0>>,
      <<50, 100, -2, 2, 0, 1, 0>>, <<50, 100, -1, 5, 0, 0, 0>>,
      <<50, 100, 5, 5, 0, 0, 0>>, <<75, 100, -4, 6, 0, 0, 0>>,
      <<90, 100, -10, 3, 0, 0, 0>>, <<100, 100, -10, 0, 0, 0, 0>>,
      <<100, 100, -10, 8, 0, 0, 0>>, <<100, 100, -2, 8, 0, 0, 0>> }

\* int(round(n / d)) for n >= 0, d > 0; tieDown decides n / d = k + 1/2
RoundMagnitude(n, d, tieDown) ==
    LET q == n \div d
        r == n % d
    IN  IF 2 * r < d THEN q
        ELSE IF 2 * r > d THEN q + 1
        ELSE IF tieDown THEN q ELSE q + 1

\* int(round(n / d)) with Python's round-half-to-even, for d > 0
RoundHalfEven(n, d) ==
    LET q == Abs(n) \div d
    IN  Sign(n) * RoundMagnitude(Abs(n), d, q % 2 = 0)

\* a cooldown that never ends: line 383 without its window
CooldownMultUnexpired(e, t) ==
    IF Get(e.state, "last_change_ts", 0) > 0 THEN <<7, 20>> ELSE <<1, 1>>

\* no cooldown: line 381 alone
CooldownMultNever(e, t) == <<1, 1>>

\* cooldown_mult of line 381-384, as <<numerator, denominator>>
CooldownMult(e, t) ==
    LET last_change_ts == Get(e.state, "last_change_ts", 0)
    IN  IF last_change_ts > 0 /\ t - last_change_ts < cooldown_seconds
        THEN <<7, 20>>
        ELSE <<1, 1>>

\* no repeat multiplier: lines 390 and 400 alone
RepeatMultNever(e, is_positive) == <<1, 1>>

\* the multiplier of line 392 for either sign
RepeatMultDamping(e, is_positive) ==
    IF Get(e.state, "repeat_count", 0) >= 2 THEN <<11, 20>> ELSE <<1, 1>>

\* repeat_mult of lines 390-392 and 400-402, as <<numerator, denominator>>
RepeatMult(e, is_positive) ==
    IF Get(e.state, "repeat_count", 0) >= 2
    THEN IF is_positive THEN <<11, 20>> ELSE <<23, 20>>
    ELSE <<1, 1>>

\* a level multiplier of 1 at every score
LevelMultFlat(e, is_positive) ==
    20 * (IF e.max_value > 0 THEN e.max_value ELSE 1)

\* the level multipliers with 1 - ratio for ratio: both rise with the score
LevelMultMirrored(e, is_positive) ==
    LET m == IF e.max_value > 0 THEN e.max_value ELSE 1
        vr == IF e.max_value > 0 THEN Max(0, Min(m, e.value)) ELSE 0
    IN  IF is_positive
        THEN Max(7 * m, Min(24 * m, 10 * m + 12 * vr))
        ELSE Max(12 * m, Min(32 * m, 13 * m + 14 * vr))

\* the numerator of the level multiplier over 20 * max_value:
\* lines 387-388 (positive) and 397-398 (negative)
LevelMult(e, is_positive) ==
    LET m == IF e.max_value > 0 THEN e.max_value ELSE 1
        vr == IF e.max_value > 0 THEN Max(0, Min(m, e.value)) ELSE 0
    IN  IF is_positive
        THEN Max(7 * m, Min(24 * m, 22 * m - 12 * vr))
        ELSE Max(12 * m, Min(32 * m, 27 * m - 14 * vr))

\* final_float of lines 395 and 405, as the fraction [n, d] with d > 0
FinalFloat(e, base_change, t) ==
    LET is_positive == base_change > 0
        m == IF e.max_value > 0 THEN e.max_value ELSE 1
        recent == CountRecent(e, t)
        cool == CooldownMult(e, t)
        rep == RepeatMult(e, is_positive)
        lvl == LevelMult(e, is_positive)
    IN  IF is_positive
        THEN LET streak == Get(e.state, "pos_streak", 0)
             IN  [n |-> base_change * lvl * 3 * rep[1] * cool[1]
                          * (20 + Min(4, streak)),
                  d |-> 20 * m * (3 + recent.pos) * rep[2] * cool[2] * 20]
        ELSE LET streak == Get(e.state, "neg_streak", 0)
             IN  [n |-> base_change * lvl * rep[1] * cool[1]
                          * (100 + Min(35, 12 * streak)),
                  d |-> 4 * m * (5 + recent.neg) * rep[2] * cool[2] * 100]

\* the key of TieRoundsDown for this evaluation
TieKey(e, base_change, t) ==
    LET is_positive == base_change > 0
        m == IF e.max_value > 0 THEN e.max_value ELSE 1
        recent == CountRecent(e, t)
    IN  << IF e.max_value > 0 THEN Max(0, Min(m, e.value)) ELSE 0,
           m, base_change,
           IF is_positive THEN recent.pos ELSE recent.neg,
           IF Get(e.state, "repeat_count", 0) >= 2 THEN 1 ELSE 0,
           IF CooldownMult(e, t) = <<1, 1>> THEN 0 ELSE 1,
           IF is_positive THEN Min(4, Get(e.state, "pos_streak", 0))
           ELSE Min(3, Get(e.state, "neg_streak", 0)) >>

\* lines 409-416 with int(final_float) for int(round(final_float))
RoundAndClampTruncating(f, tieDown, cap) ==
    LET truncated == Sign(f.n) * (Abs(f.n) \div f.d)
        final_int == IF truncated # 0 THEN truncated
                     ELSE IF 5 * Abs(f.n) >= 3 * f.d THEN Sign(f.n)
                     ELSE 0
    IN  Max(-cap, Min(cap, final_int))

\* lines 409-414 without the clamp of line 416
RoundWithoutClamp(f, tieDown, cap) ==
    LET rounded == Sign(f.n) * RoundMagnitude(Abs(f.n), f.d, tieDown)
    IN  IF rounded # 0 THEN rounded
        ELSE IF 5 * Abs(f.n) >= 3 * f.d THEN Sign(f.n)
        ELSE 0

\* lines 409-416 with the floor of line 110, max(1, ...), for the lower
\* clamp of line 416
RoundAndClampAboveOne(f, tieDown, cap) ==
    LET rounded == Sign(f.n) * RoundMagnitude(Abs(f.n), f.d, tieDown)
        final_int == IF rounded # 0 THEN rounded
                     ELSE IF 5 * Abs(f.n) >= 3 * f.d THEN Sign(f.n)
                     ELSE 0
    IN  Max(1, Min(cap, final_int))

\* lines 409-416: round, rescue a lost signal, clamp
RoundAndClamp(f, tieDown, cap) ==
    LET rounded == Sign(f.n) * RoundMagnitude(Abs(f.n), f.d, tieDown)
        final_int == IF rounded # 0 THEN rounded
                     ELSE IF 5 * Abs(f.n) >= 3 * f.d THEN Sign(f.n)
                     ELSE 0
    IN  Max(-cap, Min(cap, final_int))

\* ValueGame._apply_relationship_dynamics
ApplyRelationshipDynamics(e, base_change, t) ==
    IF base_change = 0 THEN 0
    ELSE RoundAndClamp(FinalFloat(e, base_change, t),
                       TieKey(e, base_change, t) \in TieRoundsDown,
                       e.max_manner_change)

\* lines 204-215 without the intensity of line 205
BaseChangeUnscaled(positive_emotions, negative_emotions, cap) ==
    LET total == positive_emotions + negative_emotions
        rounded == RoundHalfEven((positive_emotions - negative_emotions) * cap,
                                 total)
        raw_change == IF rounded # 0 THEN rounded
                      ELSE Sign(positive_emotions - negative_emotions)
    IN  Max(-cap, Min(cap, raw_change))

\* lines 204-215 without the forcing of lines 208-212
BaseChangeWithoutForcing(positive_emotions, negative_emotions, cap) ==
    LET total == positive_emotions + negative_emotions
        rounded == RoundHalfEven(
                       (positive_emotions - negative_emotions)
                           * Min(3, total) * cap,
                       3 * total)
    IN  Max(-cap, Min(cap, rounded))

\* lines 204-215: the base delta of a message with sentiment hits
BaseChange(positive_emotions, negative_emotions, cap) ==
    LET total == positive_emotions + negative_emotions
        rounded == RoundHalfEven(
                       (positive_emotions - negative_emotions)
                           * Min(3, total) * cap,
                       3 * total)
        raw_change == IF rounded # 0 THEN rounded
                      ELSE Sign(positive_emotions - negative_emotions)
    IN  Max(-cap, Min(cap, raw_change))

----------------------------------------------------------------------------
(* determine_manner_change *)

\* lines 162-165: the utterance the update is about
LastContent(last_user_text, memory_content) ==
    IF Strip(last_user_text) # <<>> THEN Strip(last_user_text)
    ELSE ExtractLastUserTextFromMemory(memory_content)

\* lines 171-187 and 204-222: the delta of the utterance on engine e
ChangeAmount(e, last_content, t) ==
    LET sentiment_result == Sentiment(last_content)
        positive_emotions == sentiment_result.positive_num
        negative_emotions == sentiment_result.negative_num
    IN  IF positive_emotions + negative_emotions <= 0
        THEN IF IsTrivialMessage(last_content) THEN 0
             ELSE ApplyRelationshipDynamics(e, 1, t)
        ELSE ApplyRelationshipDynamics(
                 e,
                 BaseChange(positive_emotions, negative_emotions,
                            e.max_manner_change),
                 t)

\* lines 189-201 and 226-237: bookkeeping, then apply or decay the streaks
ApplyChange(e, last_content, change_amount, t) ==
    LET e1 == [e EXCEPT !.state = Put(e.state, "last_event_ts", t)]
        e2 == UpdateRepeatState(e1, NormalizeUserText(last_content), t)
        e3 == IF change_amount # 0
              THEN AppendRecentEvent(
                       UpdateStreaks(ChangeMannerValue(e2, change_amount, t),
                                     change_amount),
                       change_amount, t)
              ELSE SaveValueToStatusFile(DecayStreaks(e2))
    IN  [e3 EXCEPT !.value_change = Some(change_amount)]

\* determine_manner_change without the return of lines 164-166
DetermineMannerChangeOfAnyText(e, last_user_text, memory_content, t) ==
    IF ~e.has_preset THEN e
    ELSE LET decayed == ApplyDecay(e, t)
             last_content == LastContent(last_user_text, memory_content)
         IN  ApplyChange(decayed, last_content,
                         ChangeAmount(decayed, last_content, t), t)

\* ValueGame.determine_manner_change
DetermineMannerChange(e, last_user_text, memory_content, t) ==
    IF ~e.has_preset THEN e
    ELSE LET decayed == ApplyDecay(e, t)
             last_content == LastContent(last_user_text, memory_content)
         IN  IF last_content = <<>>
             THEN [decayed EXCEPT !.value_change = None]
             \* line 171: nothing catches what sentiment() raises
             ELSE IF "sentiment" \in decayed.failing
             THEN [decayed EXCEPT !.raised = TRUE]
             ELSE ApplyChange(decayed, last_content,
                              ChangeAmount(decayed, last_content, t), t)

----------------------------------------------------------------------------
(* The operations, as the handlers run them *)

\* the seconds between an utterance and the operation before it
Gaps == {1, 60, 43200}
\* the seconds between a command and the operation before it
CommandGap == 1

Utterances == {Blank, Fillers, One, Neutral, Glad, Love, Hate}

\* the utterances _is_trivial_message takes for filler, and those it does not
TrivialUtterances == {Fillers, One}
SubstantiveUtterances == {Neutral, Glad, Love, Hate}

\* the amounts "affection set" passes: target value minus current value
Amounts == {-250, 50, 250}

Epoch == 1000000

\* what the last operation was, and the engine it was called on
NoOp ==
    [op |-> "init", loaded |-> FALSE, text |-> <<>>, amount |-> 0,
     raised |-> FALSE, before |-> NewEngine(EmptyDict)]

\* no handler is in flight: the operations run one after the other
NoTasks == <<>>

\* the engine is the record e
Is(e) ==
    /\ value = e.value
    /\ max_value = e.max_value
    /\ max_manner_change = e.max_manner_change
    /\ manner_descriptions = e.manner_descriptions
    /\ has_preset = e.has_preset
    /\ status_file = e.status_file
    /\ state = e.state
    /\ value_change = e.value_change
    /\ storage = e.storage
    /\ failing = e.failing

Init ==
    /\ Is(NewEngine(EmptyDict))
    /\ default_character = "neko"
    /\ now = Epoch
    /\ nops = 0
    /\ last = NoOp
    /\ hist = <<>>
    /\ tasks = NoTasks

\* ValueGame(plugin): on_message.py 158, 287
Construct ==
    /\ nops < MaxOps
    /\ last.op # "construct"
    /\ Become(NewEngine(storage))
    /\ nops' = nops + 1
    /\ last' = [NoOp EXCEPT !.op = "construct", !.before = Self]
    /\ UNCHANGED <<default_character, now, hist, tasks>>

\* load_config: on_message.py 159, 288; affection.py 48, 125
Load(character, launcher_id) ==
    /\ nops < MaxOps
    /\ Become(LoadConfig(Self, character, launcher_id))
    /\ nops' = nops + 1
    /\ last' = [NoOp EXCEPT !.op = "load", !.loaded = TRUE, !.before = Self]
    /\ UNCHANGED <<default_character, now, hist, tasks>>

\* the latest three processed utterances
Remember(h, rec) ==
    LET all == Append(h, rec)
    IN  IF Len(all) > 3 THEN Tail(all) ELSE all

\* the short-term memory the handler has just extended by the message:
\* on_message.py 155, 160
MemoryWith(text) == << [speaker |-> "user", content |-> text] >>

\* determine_manner_change on the engine e0, gap seconds after the previous
\* operation: on_message.py 161
Update(op, e0, text, gap) ==
    LET t == now + gap
        content == LastContent(text, MemoryWith(text))
    IN  \E e \in {DetermineMannerChange(e0, text, MemoryWith(text), t)} :
        /\ now' = t
        /\ Become(e)
        /\ last' = [op |-> op, loaded |-> TRUE, text |-> text, amount |-> 0,
                    raised |-> e.raised, before |-> e0]
        /\ hist' = IF e0.has_preset /\ content # <<>> /\ ~e.raised
                   THEN Remember(hist,
                            [key |-> e0.status_file,
                             norm |-> NormalizeUserText(content), t |-> t,
                             delta |-> e.value_change[1]])
                   ELSE hist

\* determine_manner_change on the engine at hand
Determine(text, gap) ==
    /\ nops < MaxOps
    /\ last.loaded
    /\ Update("determine", Self, text, gap)
    /\ nops' = nops + 1
    /\ UNCHANGED <<default_character, tasks>>

\* change_manner_value(amount): affection.py 132
ChangeManner(amount) ==
    /\ nops < MaxOps
    /\ last.loaded
    /\ now' = now + CommandGap
    /\ Become(ChangeMannerValue(Self, amount, now + CommandGap))
    /\ nops' = nops + 1
    /\ last' = [NoOp EXCEPT !.op = "change", !.loaded = TRUE,
                             !.amount = amount, !.before = Self]
    /\ UNCHANGED <<default_character, hist, tasks>>

\* reset_value()
Reset ==
    /\ nops < MaxOps
    /\ last.loaded
    /\ now' = now + CommandGap
    /\ Become(ResetValue(Self, now + CommandGap))
    /\ nops' = nops + 1
    /\ last' = [NoOp EXCEPT !.op = "reset", !.loaded = TRUE, !.before = Self]
    /\ UNCHANGED <<default_character, hist, tasks>>

Next ==
    \/ Construct
    \/ \E c \in Characters, l \in Launchers : Load(c, l)
    \/ \E u \in Utterances, g \in Gaps : Determine(u, g)
    \/ \E a \in Amounts : ChangeManner(a)
    \/ Reset

Spec == Init /\ [][Next]_vars

----------------------------------------------------------------------------
(* The message handler: every message gets an engine of its own, loaded    *)
(* from the store (on_message.py 157-161, 286-290).                        *)

ChatInit ==
    /\ Is(NewEngine(EmptyDict))
    /\ default_character \in Characters
    /\ now = Epoch
    /\ nops = 0
    /\ last = NoOp
    /\ hist = <<>>
    /\ tasks = NoTasks

\* on_person_message_received, for a message with some text (lines 109-111)
ReceiveMessage(launcher_id, text, gap) ==
    /\ nops < MaxMessages
    /\ Update("message", LoadConfig(NewEngine(storage), default_character,
                               launcher_id),
              text, gap)
    /\ nops' = nops + 1
    /\ UNCHANGED <<default_character, tasks>>

ChatNext ==
    \E l \in Launchers, u \in Utterances, g \in Gaps : ReceiveMessage(l, u, g)

ChatSpec == ChatInit /\ [][ChatNext]_vars

----------------------------------------------------------------------------
(* The engine over a store it did not write in this run: the store holds   *)
(* what an earlier run, an older version or another writer left, and the   *)
(* plugin services may fail.  Each load is of a new engine, as in the      *)
(* handlers (on_message.py 157-159, 286-288).                              *)

MaxSteps == 2

\* a state dict saved ago seconds before Epoch
Stored(v, ago, pos_streak, neg_streak, deltas) ==
    [version |-> 1, value |-> v, last_event_ts |-> Epoch - ago,
     last_change_ts |-> Epoch - ago, last_decay_ts |-> Epoch - ago,
     recent_events |->
         [i \in 1..Len(deltas) |-> [ts |-> Epoch - ago, delta |-> deltas[i]]],
     pos_streak |-> pos_streak, neg_streak |-> neg_streak,
     last_user_text_norm |-> <<>>, repeat_count |-> 0, repeat_last_ts |-> 0]

\* the record of the versions before the state dict: {"value": 42}
Legacy == [value |-> 42]

StoredScores == {-100, -7, 0, 5, 50, 95, 100}
ActiveScores == {0, 50, 100}

\* a relationship left alone for three decay intervals; one in a run of
\* positive updates a minute ago; one in a run of negative updates
Quiet(v) == Stored(v, 3 * decay_interval_seconds, 0, 0, <<>>)
Warm(v) == Stored(v, 60, 2, 0, <<3, 2>>)
Sour(v) == Stored(v, 60, 0, 2, <<-3, -4>>)
\* one spoken to a minute ago whose decay was last evaluated a second less
\* than a decay interval ago, by the first update of a long conversation
Chatty(v) ==
    [Warm(v) EXCEPT !.last_decay_ts = Epoch - (decay_interval_seconds - 1)]

\* one that has had as many positive updates in the last minutes as the
\* recent events can hold
Busy(v) == Stored(v, 60, 3, 0, [i \in 1..MaxRecentEvents |-> 1])

StoredBytes ==
    {EmptyBytes, Unparseable, JsonArray, Legacy}
        \cup {Quiet(v) : v \in StoredScores}
        \cup {Warm(v) : v \in ActiveScores}
        \cup {Sour(v) : v \in ActiveScores}
        \cup {Chatty(v) : v \in ActiveScores}
        \cup {Busy(50)}

\* the store holds nothing, or the same bytes for each character's
\* relationship with the launcher
Stores ==
    {EmptyDict} \cup
    {[k \in {StatusFileOf("neko", "u1"), StatusFileOf("tsun", "u1")} |-> b] :
         b \in StoredBytes}

\* the plugin storage reads fail, or its writes, or text_analyzer.sentiment
Failures == {{}, {"read"}, {"write"}, {"sentiment"}}

StoredCharacters == {"neko", "tsun"}
Absences == {1, decay_interval_seconds, 3 * decay_interval_seconds,
             12 * decay_interval_seconds}
StoreUtterances == {Blank, Neutral, Love, Hate}
\* the amounts of "affection set", with that of a target equal to the score
Adjustments == Amounts \cup {0}

StoreInit ==
    /\ \E sto \in Stores, f \in Failures :
           Is([NewEngine(sto) EXCEPT !.failing = f])
    /\ default_character = "neko"
    /\ now = Epoch
    /\ nops = 0
    /\ last = NoOp
    /\ hist = <<>>
    /\ tasks = NoTasks

\* ValueGame(plugin) and load_config on it: on_message.py 157-159
Reopen(character) ==
    /\ nops < MaxSteps
    /\ Become(LoadConfig([NewEngine(storage) EXCEPT !.failing = failing],
                         character, "u1"))
    /\ nops' = nops + 1
    /\ last' = [NoOp EXCEPT !.op = "reopen", !.loaded = TRUE, !.before = Self]
    /\ UNCHANGED <<default_character, now, hist, tasks>>

\* determine_manner_change, after an absence of gap seconds
Speak(text, gap) ==
    /\ nops < MaxSteps
    /\ last.loaded
    /\ Update("determine", Self, text, gap)
    /\ nops' = nops + 1
    /\ UNCHANGED <<default_character, tasks>>

\* change_manner_value(amount): affection.py 132
Adjust(amount) ==
    /\ nops < MaxSteps
    /\ last.loaded
    /\ now' = now + CommandGap
    /\ \E e \in {ChangeMannerValue(Self, amount, now + CommandGap)} :
           /\ Become(e)
           /\ last' = [NoOp EXCEPT
                           !.op = "change", !.loaded = TRUE,
                           !.amount = amount, !.raised = e.raised,
                           !.before = Self]
    /\ nops' = nops + 1
    /\ UNCHANGED <<default_character, hist, tasks>>

\* reset_value()
Forget ==
    /\ nops < MaxSteps
    /\ last.loaded
    /\ now' = now + CommandGap
    /\ \E e \in {ResetValue(Self, now + CommandGap)} :
           /\ Become(e)
           /\ last' = [NoOp EXCEPT !.op = "reset", !.loaded = TRUE,
                                   !.raised = e.raised, !.before = Self]
    /\ nops' = nops + 1
    /\ UNCHANGED <<default_character, hist, tasks>>

StoreNext ==
    \/ \E c \in StoredCharacters : Reopen(c)
    \/ \E u \in StoreUtterances, g \in Absences : Speak(u, g)
    \/ \E a \in Adjustments : Adjust(a)
    \/ Forget

StoreSpec == StoreInit /\ [][StoreNext]_vars

----------------------------------------------------------------------------
(* The handlers as tasks of one event loop.  A task runs until it awaits   *)
(* the plugin storage: get_plugin_storage (line 53) and set_plugin_storage *)
(* (line 514) are calls to the host, and while one is pending the loop     *)
(* resumes any task that is ready.  ConfigManager.load_config with         *)
(* completion=False (line 49) awaits nothing, so it does not suspend.  The *)
(* command handlers work on plugin.value_game (affection.py 48, 125, 132)  *)
(* and take no lock; the message handler works on an engine of its own     *)
(* (on_message.py 158) inside plugin._memory_lock, which only message      *)
(* handlers take.  The commands of the model are private-chat commands:    *)
(* they load the card of the "character" entry, as the message does.       *)

\* load_config, lines 36-43
EnterLoadConfig(e, character, launcher_id) ==
    IF character = "off"
    THEN [e EXCEPT !.has_preset = FALSE]
    ELSE [e EXCEPT !.has_preset = TRUE,
                   !.status_file = StatusFileOf(character, launcher_id)]

\* line 53: what the storage holds under the key the engine has at the call
ReadStorage(e) ==
    IF e.status_file \in DOMAIN e.storage
    THEN Some(e.storage[e.status_file])
    ELSE None

\* lines 54, 75: no bytes, or the read or json.loads raised
NoRecord(e, value_data) ==
    \/ "read" \in e.failing
    \/ value_data = None
    \/ value_data[1] \in {EmptyBytes, Unparseable}

\* lines 59-74 and 78-92, up to the call of set_plugin_storage
StartFresh(e) ==
    SaveValueToStatusFile([e EXCEPT !.value = 0, !.state = FreshState(0)])

\* lines 95-97
LoadCard(e, character) ==
    LET ds == Get(Cards[character], "value_descriptions", <<>>)
    IN  [e EXCEPT !.manner_descriptions = ds,
                  !.max_manner_change =
                      Get(Cards[character], "max_manner_change",
                          DefaultMaxMannerChange),
                  !.max_value = CalcMaxValue(ds)]

\* where a task is: at its first line, awaiting the read of line 53, the
\* save of a fresh state (74, 92), of a score clamped from above (101) or
\* from below (104), the save of change_manner_value (500), or finished
Points == {"start", "read", "fresh", "high", "low", "change", "done"}

\* a task of the engine e that has run up to the point pc
At(e, pc) == [e |-> e, pc |-> pc, data |-> None, result |-> None]

\* what follows the return of load_config.  affection.py 55-58: the query
\* reads the score; 132: the set calls change_manner_value, which runs to
\* its save; on_message.py 160-161: determine_manner_change, which works on
\* the handler's own engine and reads the store no more, taken as one step
\* (the handler's writes land in program order, none of another task
\* between them)
AfterLoad(e, task, t) ==
    IF task.kind = "check"
    THEN [At(e, "done") EXCEPT !.result = Some(e.value)]
    ELSE IF task.kind = "set"
    THEN At(ChangeMannerValue(e, task.target - e.value, t), "change")
    ELSE LET e1 == DetermineMannerChange(e, task.text, MemoryWith(task.text), t)
         IN  [At(e1, "done") EXCEPT !.result = e1.value_change]

\* affection.py 133: the set reads the score back once its save returned
AfterChange(e) == [At(e, "done") EXCEPT !.result = Some(e.value)]

\* load_config, lines 102-104
ClampLow(e, task, t) ==
    IF e.value < min_value
    THEN At(SaveValueToStatusFile([e EXCEPT !.value = min_value]), "low")
    ELSE AfterLoad(e, task, t)

\* load_config, lines 95-101
ClampHigh(e, character, task, t) ==
    LET e3 == LoadCard(e, character)
    IN  IF e3.value > e3.max_value
        THEN At(SaveValueToStatusFile([e3 EXCEPT !.value = e3.max_value]),
                "high")
        ELSE ClampLow(e3, task, t)

\* load_config resumed with the bytes read, lines 54-92
FromRead(e, character, task, t) ==
    IF NoRecord(e, task.data)
    THEN At(StartFresh(e), "fresh")
    ELSE ClampHigh(LoadState(e, task.data[1]), character, task, t)

\* load_config from its first line to the read of line 53
FromStart(e, character, task, t) ==
    LET e1 == EnterLoadConfig(e, character, task.launcher)
    IN  IF character = "off" THEN AfterLoad(e1, task, t)
        ELSE [At(e1, "read") EXCEPT !.data = ReadStorage(e1)]

\* the task runs on the engine e from where it is to its next await
Resume(e, character, task, t) ==
    IF task.pc = "start" THEN FromStart(e, character, task, t)
    ELSE IF task.pc = "read" THEN FromRead(e, character, task, t)
    ELSE IF task.pc = "fresh" THEN ClampHigh(e, character, task, t)
    ELSE IF task.pc = "high" THEN ClampLow(e, task, t)
    ELSE IF task.pc = "low" THEN AfterLoad(e, task, t)
    ELSE AfterChange(e)

TaskIds == {"c1", "c2", "m"}

\* no handler
Absent ==
    [kind |-> "none", launcher |-> "", target |-> 0, text |-> <<>>,
     pc |-> "done", data |-> None, engine |-> NewEngine(EmptyDict),
     result |-> None]

\* check_affection for the sender launcher_id
Query(launcher_id) ==
    [Absent EXCEPT !.kind = "check", !.launcher = launcher_id, !.pc = "start"]

\* set_affection: "affection set <launcher_id> <score>"
SetTo(launcher_id, score) ==
    [Absent EXCEPT !.kind = "set", !.launcher = launcher_id,
                   !.target = score, !.pc = "start"]

\* on_person_message_received for a message of launcher_id
Message(launcher_id, text) ==
    [Absent EXCEPT !.kind = "message", !.launcher = launcher_id,
                   !.text = text, !.pc = "start"]

\* the handlers started together: a command about u1, a command about u2,
\* a message of u1
Scenarios ==
    {[c1 |-> a, c2 |-> b, m |-> c] :
        a \in {Absent, Query("u1"), SetTo("u1", 50)},
        b \in {Absent, Query("u2"), SetTo("u2", 30)},
        c \in {Absent, Message("u1", Love), Message("u1", Hate)}}
    \ {[c1 |-> Absent, c2 |-> Absent, m |-> Absent]}

\* a relationship at score v, last spoken to a minute ago
Held(v) == Stored(v, 60, 0, 0, <<>>)

KeysOf(launcher_id) == {StatusFileOf(c, launcher_id) : c \in StoredCharacters}

\* the store with a record for each launcher of ls: u1 at 10, u2 at 20
HeldStore(ls) ==
    [k \in UNION {KeysOf(l) : l \in ls} |->
        IF k \in KeysOf("u1") THEN Held(10) ELSE Held(20)]

HeldStores == {HeldStore({"u1", "u2"}), HeldStore({"u2"})}

\* last.before is the plugin's engine as the handlers found it
TasksInit ==
    /\ \E sto \in HeldStores :
           /\ Is(NewEngine(sto))
           /\ last = [NoOp EXCEPT !.op = "start", !.before = NewEngine(sto)]
    /\ default_character \in StoredCharacters
    /\ now = Epoch
    /\ nops = 0
    /\ hist = <<>>
    /\ tasks \in Scenarios

\* the event loop resumes the task id, which runs to its next await
Step(id) ==
    /\ tasks[id].pc # "done"
    /\ now' = now + CommandGap
    /\ nops' = nops + 1
    /\ LET task == tasks[id]
           own == task.kind = "message"
           e0 == IF ~own THEN Self
                 ELSE IF task.pc = "start"
                      THEN [NewEngine(storage) EXCEPT !.failing = failing]
                      ELSE [task.engine EXCEPT !.storage = storage]
       IN  \E r \in {Resume(e0, default_character, task, now + CommandGap)} :
               /\ tasks' = [tasks EXCEPT
                               ![id] = [task EXCEPT
                                   !.pc = r.pc, !.data = r.data,
                                   !.result = r.result,
                                   !.engine =
                                       IF own
                                       THEN [r.e EXCEPT !.storage = EmptyDict]
                                       ELSE task.engine]]
               /\ IF own
                  THEN /\ storage' = r.e.storage
                       /\ UNCHANGED <<value, max_value, max_manner_change,
                                      manner_descriptions, has_preset,
                                      status_file, state, value_change,
                                      failing>>
                  ELSE Become(r.e)
    /\ UNCHANGED <<default_character, last, hist>>

TasksNext == \E id \in TaskIds : Step(id)

TasksSpec == TasksInit /\ [][TasksNext]_vars

----------------------------------------------------------------------------
(* load_config for a card that is not one of Cards: card is the dict the   *)
(* card file holds, character its name.                                    *)

LoadConfigOfCard(e, card, character, launcher_id) ==
    LET key == StatusFileOf(character, launcher_id)
        e1 == [e EXCEPT !.has_preset = TRUE, !.status_file = key]
        fresh == SaveValueToStatusFile(
                     [e1 EXCEPT !.value = 0, !.state = FreshState(0)])
        e2 == IF "read" \in e1.failing THEN fresh
              ELSE IF key \notin DOMAIN e1.storage THEN fresh
              ELSE IF e1.storage[key] = EmptyBytes THEN fresh
              ELSE IF e1.storage[key] = Unparseable THEN fresh
              ELSE LoadState(e1, e1.storage[key])
        ds == Get(card, "value_descriptions", <<>>)
        e3 == [e2 EXCEPT
                  !.manner_descriptions = ds,
                  !.max_manner_change =
                      Get(card, "max_manner_change", DefaultMaxMannerChange),
                  !.max_value = CalcMaxValue(ds)]
        e4 == IF e3.value > e3.max_value
              THEN SaveValueToStatusFile([e3 EXCEPT !.value = e3.max_value])
              ELSE e3
        e5 == IF e4.value < min_value
              THEN SaveValueToStatusFile([e4 EXCEPT !.value = min_value])
              ELSE e4
    IN  e5

----------------------------------------------------------------------------
(* The delta over the hit counts text_analyzer.sentiment can return and    *)
(* the caps a card can set.  The counts depend on the dictionaries the     *)
(* analyser loads; here they are the input of the update.                  *)

\* the most hits of one sign, and the updates of a run
MaxHits == 4
MaxAnalyses == 2

HitCounts == 0..MaxHits
\* the max_manner_change of the card
Caps == 1..10
\* the seconds between the updates
AnalysisGaps == {60}

\* the utterance the counts are found in
Spoken == <<"w", "d", "s">>

\* lines 171-187 and 204-222 for a sentiment_result holding the counts
ChangeAmountOfHits(e, last_content, positive_emotions, negative_emotions, t) ==
    IF positive_emotions + negative_emotions <= 0
    THEN IF IsTrivialMessage(last_content) THEN 0
         ELSE ApplyRelationshipDynamics(e, 1, t)
    ELSE ApplyRelationshipDynamics(
             e,
             BaseChange(positive_emotions, negative_emotions,
                        e.max_manner_change),
             t)

\* a card "capped" that sets max_manner_change and nothing else, loaded for
\* a launcher without a record
HitsInit ==
    /\ \E cap \in Caps :
           Is(LoadConfigOfCard(NewEngine(EmptyDict),
                               [max_manner_change |-> cap], "capped", "u1"))
    /\ default_character = "neko"
    /\ now = Epoch
    /\ nops = 0
    /\ last = [NoOp EXCEPT !.loaded = TRUE]
    /\ hist = <<>>
    /\ tasks = NoTasks

\* determine_manner_change(last_user_text = Spoken) where the analyser
\* returns the counts: lines 159-237
Analyse(positive_emotions, negative_emotions, gap) ==
    /\ nops < MaxAnalyses
    /\ \E decayed \in {ApplyDecay(Self, now + gap)} :
       \E e \in {ApplyChange(decayed, Strip(Spoken),
                             ChangeAmountOfHits(decayed, Strip(Spoken),
                                                positive_emotions,
                                                negative_emotions, now + gap),
                             now + gap)} :
           /\ Become(e)
           /\ last' = [op |-> "analyse", loaded |-> TRUE, text |-> Spoken,
                       amount |-> 0, raised |-> FALSE, before |-> Self,
                       positive_num |-> positive_emotions,
                       negative_num |-> negative_emotions]
           /\ hist' = Remember(hist,
                           [key |-> status_file,
                            norm |-> NormalizeUserText(Strip(Spoken)),
                            t |-> now + gap, delta |-> e.value_change[1]])
    /\ now' = now + gap
    /\ nops' = nops + 1
    /\ UNCHANGED <<default_character, tasks>>

HitsNext ==
    \E p \in HitCounts, n \in HitCounts, g \in AnalysisGaps :
        Analyse(p, n, g)

HitsSpec == HitsInit /\ [][HitsNext]_vars

----------------------------------------------------------------------------
(* The bands of a card and the description of the score.  A description is *)
(* a text, as the utterances are.                                          *)

\* the bands of a card, and the score changes of a run
MaxBands == 2
MaxMoves == 3

\* the full stop _ensure_punctuation appends (U+3002)
IdeographicFullStop == "\\u3002"

\* the character class of _ensure_punctuation (its ASCII members and the
\* ideographic full stop)
EndPunctuation == {IdeographicFullStop, ".", ",", "?", ";"}

\* ValueGame._ensure_punctuation
EnsurePunctuation(text) ==
    IF text # <<>> /\ text[Len(text)] \in EndPunctuation THEN text
    ELSE Append(text, IdeographicFullStop)

\* ValueGame._list_to_prompt_str, for a description that is one string
ListToPromptStr(content) == EnsurePunctuation(content)

\* ValueGame.get_manner_description
GetMannerDescription(e) ==
    LET ds == e.manner_descriptions
        matching == {i \in 1..Len(ds) : e.value <= ds[i].max}
        first == CHOOSE i \in matching : \A j \in matching : i <= j
    IN  IF ds = <<>> THEN <<>>
        ELSE IF matching = {} THEN ListToPromptStr(ds[Len(ds)].description)
        ELSE ListToPromptStr(ds[first].description)

\* the max of the bands, each with a description of its own
BandThresholds == {-5, -2, 2, 5}

DescriptionOf(m) ==
    IF m = -5 THEN <<"i", "c", "y">>
    ELSE IF m = -2 THEN <<"c", "o", "l", "d">>
    ELSE IF m = 2 THEN <<"w", "a", "r", "m", ".">>
    ELSE <<"h", "o", "t">>

Band(m) == [max |-> m, description |-> DescriptionOf(m)]

\* the value_descriptions a card can hold: up to MaxBands bands of different
\* max, in any order
BandLists ==
    UNION {
        {ds \in [1..k -> {Band(m) : m \in BandThresholds}] :
             \A i, j \in 1..k : i # j => ds[i].max # ds[j].max} :
        k \in 0..MaxBands}

\* the scores "affection set" is given
Targets == {-3, 0, 1, 2, 3, 5, 50}

\* the card "banded": value_descriptions and nothing else
BandedCard(ds) == [value_descriptions |-> ds]

\* the store holds nothing, or the record of a relationship at 50 that the
\* card's earlier bands allowed
BandedStores ==
    {EmptyDict, [k \in {StatusFileOf("banded", "u1")} |-> Quiet(50)]}

\* the plugin's engine after the first command for the launcher has loaded
\* the card
BandsInit ==
    /\ \E ds \in BandLists, sto \in BandedStores :
           Is(LoadConfigOfCard(NewEngine(sto), BandedCard(ds), "banded", "u1"))
    /\ default_character = "banded"
    /\ now = Epoch
    /\ nops = 0
    /\ last = [NoOp EXCEPT !.loaded = TRUE]
    /\ hist = <<>>
    /\ tasks = NoTasks

\* "affection check": load_config, then the reply with the score and its
\* description (affection.py 48-62); the card file is the one loaded before
CheckAffection ==
    /\ nops < MaxMoves
    /\ now' = now + CommandGap
    /\ Become(LoadConfigOfCard(Self, BandedCard(manner_descriptions),
                               "banded", "u1"))
    /\ nops' = nops + 1
    /\ last' = [NoOp EXCEPT !.op = "check", !.loaded = TRUE, !.before = Self]
    /\ UNCHANGED <<default_character, hist, tasks>>

\* "affection set": load_config, then change_manner_value by the distance
\* to the target (affection.py 125-132)
SetAffection(target) ==
    /\ nops < MaxMoves
    /\ now' = now + CommandGap
    /\ \E e \in {LoadConfigOfCard(Self, BandedCard(manner_descriptions),
                                   "banded", "u1")} :
           Become(ChangeMannerValue(e, target - e.value, now + CommandGap))
    /\ nops' = nops + 1
    /\ last' = [NoOp EXCEPT !.op = "set", !.loaded = TRUE,
                             !.amount = target, !.before = Self]
    /\ UNCHANGED <<default_character, hist, tasks>>

BandsNext ==
    \/ CheckAffection
    \/ \E target \in Targets : SetAffection(target)

BandsSpec == BandsInit /\ [][BandsNext]_vars

----------------------------------------------------------------------------
(* A correspondent who, from some day on, sends nothing but filler, never  *)
(* sooner than a decay interval after the message before.                  *)

\* the updates of the run
MaxMurmurs == 102

\* the seconds between two of the messages
DriftGaps == {decay_interval_seconds, 12 * decay_interval_seconds}

\* the record the first of the messages finds
DriftBytes == {Legacy, Quiet(min_value), Quiet(5), Quiet(DefaultMaxValue)}

\* the engine loaded from the record
DriftInit ==
    /\ \E b \in DriftBytes, c \in StoredCharacters :
           /\ Is(LoadConfig(NewEngine([k \in {StatusFileOf(c, "u1")} |-> b]),
                            c, "u1"))
           /\ default_character = c
    /\ now = Epoch
    /\ nops = 0
    /\ last = [NoOp EXCEPT !.loaded = TRUE]
    /\ hist = <<>>
    /\ tasks = NoTasks

\* determine_manner_change for a message gap seconds after the one before
Murmur(text, gap) ==
    /\ nops < MaxMurmurs
    /\ \E e \in {DetermineMannerChange(Self, text, MemoryWith(text),
                                        now + gap)} :
           /\ Become(e)
           /\ last' = [op |-> "determine", loaded |-> TRUE, text |-> text,
                       amount |-> 0, raised |-> e.raised, before |-> Self]
    /\ now' = now + gap
    /\ nops' = nops + 1
    /\ UNCHANGED <<default_character, hist, tasks>>

DriftNext == \E u \in TrivialUtterances, g \in DriftGaps : Murmur(u, g)

\* the updates, should the messages stop at any time
DriftSteps == DriftInit /\ [][DriftNext]_vars

\* one more of the messages is processed: the steps of DriftNext are the
\* steps that count an update, and one is possible whenever nops is below
\* the bound
Arrive == nops < MaxMurmurs /\ nops' = nops + 1

\* the updates when the messages keep coming
DriftSpec == DriftInit /\ [][DriftNext]_vars /\ WF_nops(Arrive)

----------------------------------------------------------------------------
(* What the last operation was called on, and what it did *)

Before == last.before

\* the last operation was determine_manner_change on an enabled engine
Updated == last.op \in {"determine", "message"} /\ Before.has_preset

\* the engine as the decay step at the start of the update left it
Decayed == ApplyDecay(Before, now)

\* the utterance the update worked on
Content == LastContent(last.text, MemoryWith(last.text))

\* the update had an utterance, and got as far as the delta step
Processed == Updated /\ Content # <<>> /\ ~last.raised

\* the delta the update returned
Delta == value_change[1]

Counts(p, n) == Sentiment(Content) = [positive_num |-> p, negative_num |-> n]

\* the update found the last change at least the cooldown ago, or none
OutsideCooldown ==
    LET ts == Get(Decayed.state, "last_change_ts", 0)
    IN  ts = 0 \/ now - ts >= cooldown_seconds

\* the update found repeat_count below the repeat threshold of lines 391, 401
BelowRepeatThreshold == Get(Decayed.state, "repeat_count", 0) < 2

----------------------------------------------------------------------------
(* Claims *)

\* C1: after every engine operation (load, determine_manner_change with its
\* decay step, change_manner_value, reset_value), in any sequence, the
\* score satisfies min_value <= score <= max_value.
C1_ScoreWithinBounds == min_value <= value /\ value <= max_value

\* a change that had to be clamped at the top
C1_Witness ==
    /\ last.op = "change"
    /\ Before.value + last.amount > max_value
    /\ value = max_value

\* C2 as stated: when determine_manner_change returns after a non-zero
\* delta, the record in the store equals the in-memory state.
C2_StoreEqualsState ==
    (Processed /\ Delta # 0) => storage[status_file] = state

\* C3 as stated: counts (3, 0) always give a delta > 0 and counts (0, 3)
\* always give a delta < 0.
C3_StrictSign ==
    /\ (Processed /\ Counts(3, 0)) => Delta > 0
    /\ (Processed /\ Counts(0, 3)) => Delta < 0

\* C3, amended: in every reachable state counts (3, 0) give a delta >= 0
\* and counts (0, 3) a delta <= 0; with max_manner_change >= 1 the delta is
\* non-zero whenever the update is outside the cooldown, repeat_count is
\* below 2 and the recent window holds no event of the delta's sign.
C3_SignDominance ==
    /\ (Processed /\ Counts(3, 0)) =>
          /\ Delta >= 0
          /\ (max_manner_change >= 1 /\ OutsideCooldown
                 /\ BelowRepeatThreshold
                 /\ CountRecent(Decayed, now).pos = 0) => Delta > 0
    /\ (Processed /\ Counts(0, 3)) =>
          /\ Delta <= 0
          /\ (max_manner_change >= 1 /\ OutsideCooldown
                 /\ BelowRepeatThreshold
                 /\ CountRecent(Decayed, now).neg = 0) => Delta < 0

\* a strongly negative utterance that moved the score down
C3_Witness ==
    /\ Processed /\ Counts(0, 3)
    /\ OutsideCooldown /\ BelowRepeatThreshold
    /\ CountRecent(Decayed, now).neg = 0
    /\ Delta < 0 /\ value < Before.value

\* C4 as stated: determine_manner_change with an empty utterance leaves the
\* score, every state field and the stored record unchanged, and signals
\* None.
C4_EmptyIsNoOp ==
    (Updated /\ Content = <<>>) =>
        /\ value_change = None
        /\ value = Before.value
        /\ state = Before.state
        /\ storage = Before.storage

\* C4, amended: determine_manner_change with an empty utterance applies no
\* delta and signals None; only the decay step acts, so every state field
\* other than the score and last_decay_ts is unchanged, and the score, every
\* state field and the stored record are all unchanged when the last decay
\* evaluation on record (last_decay_ts, else last_event_ts) is less than the
\* decay interval ago.
C4_EmptyOnlyDecays ==
    (Updated /\ Content = <<>>) =>
        LET ld == Get(Before.state, "last_decay_ts", 0)
            ref == IF ld > 0 THEN ld ELSE Get(Before.state, "last_event_ts", 0)
        IN  /\ value_change = None
            /\ \A k \in DOMAIN Before.state \ {"value", "last_decay_ts"} :
                   k \in DOMAIN state /\ state[k] = Before.state[k]
            /\ (ref > 0 /\ now - ref < decay_interval_seconds) =>
                   /\ value = Before.value
                   /\ state = Before.state
                   /\ storage = Before.storage

\* an empty utterance whose update decayed the score and nothing else
C4_Witness ==
    /\ Updated /\ Content = <<>>
    /\ value_change = None
    /\ value # Before.value
    /\ state.last_event_ts = Before.state.last_event_ts

\* the first message of a fresh relationship with max_manner_change = 10
\* carries the counts (1, 0)
FirstGladMessage ==
    /\ Processed /\ Counts(1, 0)
    /\ Before.value = 0 /\ Before.state = FreshState(0)
    /\ Before.max_manner_change = 10

\* C5 as stated: that first message applies a delta of 1 or 2, leaves the
\* score equal to the delta and positive_streak = 1.
C5_FirstDeltaOneOrTwo ==
    FirstGladMessage =>
        Delta \in {1, 2} /\ value = Delta /\ state.pos_streak = 1

\* C5, amended: that first message applies a delta of 3, leaves the score
\* at 3 and positive_streak = 1.
C5_FirstDeltaThree ==
    FirstGladMessage => Delta = 3 /\ value = 3 /\ state.pos_streak = 1

C5_Witness == FirstGladMessage /\ value = 3

\* the update was of a substantive utterance without sentiment hits, found
\* no event in the recent window, and the last change beyond the cooldown
NudgeCase ==
    /\ Processed /\ Counts(0, 0)
    /\ Content \in SubstantiveUtterances
    /\ CountRecent(Decayed, now) = [pos |-> 0, neg |-> 0]
    /\ OutsideCooldown

\* C6 as stated: for any score within bounds, such an update produces a
\* delta of exactly +1.
C6_NudgeIsOne == NudgeCase => Delta = 1

\* C6, amended: such an update produces a delta of exactly +1 provided the
\* utterance is not a third or later consecutive repetition (repeat_count
\* below 2 when the delta is computed) and max_manner_change >= 1.
C6_NudgeIsOneUnlessRepeated ==
    (NudgeCase /\ BelowRepeatThreshold /\ max_manner_change >= 1) => Delta = 1

\* a nudge of a relationship that is already above zero
C6_Witness ==
    NudgeCase /\ BelowRepeatThreshold /\ Before.value > 0 /\ Delta = 1

\* C7: in any state a trivial utterance (a single character, or only filler
\* characters and punctuation) with zero sentiment hits yields delta 0: the
\* delta step leaves the score as the decay step left it and adds no event
\* to recent_events.
C7_TrivialIsInert ==
    (Processed /\ Content \in TrivialUtterances /\ Counts(0, 0)) =>
        /\ Delta = 0
        /\ value = Decayed.value
        /\ state.recent_events = Decayed.state.recent_events

\* a trivial utterance sent to a relationship with a score and a history
C7_Witness ==
    /\ Processed /\ Content \in TrivialUtterances
    /\ Delta = 0
    /\ value # 0 /\ state.recent_events # <<>>

\* the update before the last one, when it changed the score and that was
\* the last change the last update found
AfterNonZeroUpdate ==
    /\ Processed /\ Len(hist) >= 2
    /\ hist[Len(hist) - 1].delta # 0
    /\ hist[Len(hist) - 1].key = Before.status_file
    /\ hist[Len(hist) - 1].t = Get(Before.state, "last_change_ts", 0)

\* the delta the last update would have returned, had it been issued gap
\* seconds after the last change
DeltaIfIssued(gap) ==
    LET t == Get(Before.state, "last_change_ts", 0) + gap
    IN  ChangeAmount(ApplyDecay(Before, t), Content, t)

\* the gaps of the model that leave the cooldown window
GapsBeyondCooldown == {g \in Gaps : g >= cooldown_seconds}

\* C8 as stated, for second updates that carry sentiment: after a first
\* update with a non-zero delta, a second update within the cooldown gets a
\* delta of smaller magnitude than the same update after the cooldown.
C8_CooldownShrinks ==
    (AfterNonZeroUpdate /\ ~OutsideCooldown /\ ~Counts(0, 0)) =>
        \A g \in GapsBeyondCooldown : Abs(Delta) < Abs(DeltaIfIssued(g))

\* C8, amended: after a first update with a non-zero delta, a second update
\* within the cooldown gets a delta whose magnitude is never larger than
\* that of the same update issued from the same state after the cooldown,
\* and is smaller whenever the latter is at least 2 and below
\* max_manner_change.
C8_CooldownNeverGrows ==
    (AfterNonZeroUpdate /\ ~OutsideCooldown) =>
        \A g \in GapsBeyondCooldown :
            LET later == Abs(DeltaIfIssued(g))
            IN  /\ Abs(Delta) <= later
                /\ (2 <= later /\ later < max_manner_change) =>
                       Abs(Delta) < later

\* a second update the cooldown made smaller
C8_Witness ==
    /\ AfterNonZeroUpdate /\ ~OutsideCooldown
    /\ \E g \in GapsBeyondCooldown :
           /\ 2 <= Abs(DeltaIfIssued(g))
           /\ Abs(DeltaIfIssued(g)) < max_manner_change
           /\ Abs(Delta) < Abs(DeltaIfIssued(g))

\* the last three updates were of the same utterance on the same
\* relationship, each within the repeat window of the one before
ThreeInARow ==
    /\ Processed /\ Len(hist) = 3
    /\ \A i \in 1..3 : hist[i].key = status_file /\ hist[i].norm = hist[3].norm
    /\ \A i \in 2..3 : hist[i].t - hist[i - 1].t <= repeat_window_seconds

\* the delta the last update would have returned with repeat_count = 0
DeltaUnrepeated ==
    ChangeAmount([Decayed EXCEPT
                     !.state = Put(Decayed.state, "repeat_count", 0)],
                 Content, now)

PositiveUtterance == \E p \in 1..3 : Counts(p, 0)
NegativeUtterance == \E n \in 1..3 : Counts(0, n)

\* C9 as stated: the same positive utterance three times in a row, each
\* within the repeat window, yields deltas each smaller than the one before.
C9_PositiveShrinks ==
    (ThreeInARow /\ PositiveUtterance) =>
        /\ hist[1].delta > hist[2].delta
        /\ hist[2].delta > hist[3].delta

\* C9, amended: the same positive utterance three times in a row, each
\* within the repeat window, yields three deltas none of which is negative;
\* the third is never larger than the delta the utterance would get in the
\* same state without the repetition, and is smaller than it whenever that
\* delta is at least 2 and below max_manner_change.
C9_ThirdPositiveDamped ==
    (ThreeInARow /\ PositiveUtterance) =>
        /\ \A i \in 1..3 : hist[i].delta >= 0
        /\ Delta <= DeltaUnrepeated
        /\ (2 <= DeltaUnrepeated /\ DeltaUnrepeated < max_manner_change) =>
               Delta < DeltaUnrepeated

\* a third repetition that got less than the utterance would have got
C9_Witness ==
    /\ ThreeInARow /\ PositiveUtterance
    /\ 2 <= DeltaUnrepeated /\ DeltaUnrepeated < max_manner_change
    /\ 0 < Delta /\ Delta < DeltaUnrepeated

\* C10 as stated: the same negative utterance three times in a row, each
\* within the repeat window, yields three negative deltas whose magnitudes
\* never shrink.
C10_NegativeNeverShrinks ==
    (ThreeInARow /\ NegativeUtterance) =>
        /\ \A i \in 1..3 : hist[i].delta < 0
        /\ Abs(hist[1].delta) <= Abs(hist[2].delta)
        /\ Abs(hist[2].delta) <= Abs(hist[3].delta)

\* C10, amended: the same negative utterance three times in a row, each
\* within the repeat window, yields three deltas none of which is positive,
\* and the magnitude of the third is never smaller than that of the delta
\* the utterance would get in the same state without the repetition.
C10_ThirdNegativeUndamped ==
    (ThreeInARow /\ NegativeUtterance) =>
        /\ \A i \in 1..3 : hist[i].delta <= 0
        /\ Abs(Delta) >= Abs(DeltaUnrepeated)

\* a third repetition that cost more than the utterance would have cost
C10_Witness ==
    /\ ThreeInARow /\ NegativeUtterance
    /\ Abs(Delta) > Abs(DeltaUnrepeated)
    /\ DeltaUnrepeated < 0

----------------------------------------------------------------------------
(* The level multiplier *)

\* the delta the engine d would compute now were its score v, for the base
\* delta base_change
DeltaAt(d, v, base_change) ==
    ApplyRelationshipDynamics([d EXCEPT !.value = v], base_change, now)

\* the delta the update would have computed had the score been v, and the
\* base delta base_change, with everything else as the update found it
DeltaAtScore(v, base_change) == DeltaAt(Decayed, v, base_change)

\* the scores within a tenth of max_value of it
NearMaxScores == {v \in 0..max_value : 10 * v >= 9 * max_value}

\* the lowest and the highest of them, and the score of the update if it
\* is one of them
NearMaxGrid ==
    {(9 * max_value + 9) \div 10, max_value}
        \cup ({Decayed.value} \cap NearMaxScores)

\* the base delta of the utterance: lines 177-180 and 204-215
BaseOfContent ==
    LET r == Sentiment(Content)
    IN  IF r.positive_num + r.negative_num <= 0
        THEN IF IsTrivialMessage(Content) THEN 0 ELSE 1
        ELSE BaseChange(r.positive_num, r.negative_num, max_manner_change)

\* C11 as stated: for every positive base delta the update can get, the
\* delta computed with the score near max_value is smaller than the delta
\* computed at score 0, everything else being what the update found.
C11_SmallerNearMax ==
    Processed =>
        \A d \in {Decayed}, b \in 1..max_manner_change :
            \A at0 \in {DeltaAt(d, 0, b)}, v \in NearMaxGrid :
                DeltaAt(d, v, b) < at0

\* C11 amended: the delta near max_value is never larger than the delta at
\* score 0, and is smaller whenever the delta at score 0 is 2 or more (a
\* delta of 0 or 1 at score 0 can be the same near max_value).
C11_NeverLargerNearMax ==
    Processed =>
        \A d \in {Decayed}, b \in 1..max_manner_change :
            \A at0 \in {DeltaAt(d, 0, b)}, v \in NearMaxGrid :
                \A atv \in {DeltaAt(d, v, b)} :
                    /\ 0 <= atv
                    /\ atv <= at0
                    /\ at0 >= 2 => atv < at0

\* an update with a positive base delta at a score near max_value that came
\* to less than it would have at score 0
C11_Witness ==
    /\ Processed
    /\ BaseOfContent > 0
    /\ Decayed.value \in NearMaxScores
    /\ Delta = DeltaAtScore(Decayed.value, BaseOfContent)
    /\ Delta >= 1
    /\ Delta < DeltaAtScore(0, BaseOfContent)

\* scores across the range: the floor, 0, the middle, near and at max_value
ScoreGrid ==
    {min_value, 0, max_value \div 2, (9 * max_value + 9) \div 10, max_value,
     Decayed.value}

\* the magnitude of the delta for base delta -b at each score of the grid
LossAt(b) ==
    LET d == Decayed
    IN  [v \in ScoreGrid |-> Abs(DeltaAt(d, v, -b))]

\* C12 as stated: for every negative base delta the update can get, the
\* magnitude of the delta does not decrease when the score is higher.
C12_EasierToLowerWhenHigher ==
    Processed =>
        \A b \in 1..max_manner_change :
            \A loss \in {LossAt(b)}, lo \in ScoreGrid, hi \in ScoreGrid :
                lo < hi => loss[hi] >= loss[lo]

\* C12 amended: the magnitude of the delta does not increase when the score
\* is higher, and is the same at every score of 0 or less.
C12_HarderToLowerWhenHigher ==
    Processed =>
        \A b \in 1..max_manner_change :
            \A loss \in {LossAt(b)}, lo \in ScoreGrid, hi \in ScoreGrid :
                lo < hi =>
                    /\ loss[hi] <= loss[lo]
                    /\ hi <= 0 => loss[hi] = loss[lo]

\* an update with a negative base delta at max_value that came to less, in
\* magnitude, than it would have at score 0
C12_Witness ==
    /\ Processed
    /\ BaseOfContent < 0
    /\ Decayed.value = max_value
    /\ Delta = DeltaAtScore(max_value, BaseOfContent)
    /\ Delta < 0
    /\ Abs(Delta) < Abs(DeltaAtScore(0, BaseOfContent))

----------------------------------------------------------------------------
(* Decay *)

\* when the update found the relationship last evaluated for decay or, with
\* no evaluation on record, last spoken to (0: neither on record)
DecayAnchor ==
    LET ld == Get(Before.state, "last_decay_ts", 0)
    IN  IF ld > 0 THEN ld ELSE Get(Before.state, "last_event_ts", 0)

\* the whole decay intervals of inactivity the update found
WholeIntervals ==
    IF DecayAnchor > 0 THEN (now - DecayAnchor) \div decay_interval_seconds
    ELSE 0

\* the score moved toward 0 by min(10, k, |score|)
DecayedScore(score, k) ==
    score - Sign(score) * Min(10, Min(k, Abs(score)))

\* C13: the decay evaluation of an update that comes after k >= 1 whole
\* decay intervals of inactivity moves the score toward 0 by exactly
\* min(10, k, |score|): by at most 10, never past 0, 0 staying 0.  An update
\* with no utterance does nothing else to the score.
C13_DecayTowardZero ==
    (Updated /\ WholeIntervals >= 1) =>
        /\ Decayed.value = DecayedScore(Before.value, WholeIntervals)
        /\ Abs(Before.value - Decayed.value) <= 10
        /\ Decayed.value * Before.value >= 0
        /\ Abs(Decayed.value) <= Abs(Before.value)
        /\ Content = <<>> =>
               value = DecayedScore(Before.value, WholeIntervals)

\* an update with no utterance after more than ten intervals, on a score
\* above 10: the score fell by 10
C13_Witness ==
    /\ Updated
    /\ Content = <<>>
    /\ WholeIntervals > 10
    /\ Before.value > 10
    /\ value = Before.value - 10

\* C14: after the decay evaluation of an update at time now, last_decay_ts
\* is now, whether or not the score decayed.
C14_DecayStampIsNow ==
    Updated =>
        /\ Get(Decayed.state, "last_decay_ts", 0) = now
        /\ Get(state, "last_decay_ts", 0) = now

----------------------------------------------------------------------------
(* Persistence *)

\* the character whose relationship the engine e holds
CharacterOf(e) ==
    CHOOSE c \in StoredCharacters : StatusFileOf(c, "u1") = e.status_file

\* the fields of the state dict besides version and value
StateFields ==
    {"last_event_ts", "last_change_ts", "last_decay_ts", "recent_events",
     "pos_streak", "neg_streak", "last_user_text_norm", "repeat_count",
     "repeat_last_ts"}

\* the engine e2 holds the score and every state field of the engine e1
SameRelationship(e1, e2) ==
    /\ e2.value = e1.value
    /\ e2.state.value = e1.value
    /\ \A k \in StateFields :
           k \in DOMAIN e2.state /\ k \in DOMAIN e1.state
               /\ e2.state[k] = e1.state[k]

\* a new engine of the same character, loaded from what e saves
Reloaded(e) ==
    LET saved == SaveValueToStatusFile([e EXCEPT !.failing = {}])
    IN  LoadConfig(NewEngine(saved.storage), CharacterOf(e), "u1")

\* the store holds the state of the engine e
Persisted(e) ==
    /\ e.status_file \in DOMAIN e.storage
    /\ e.storage[e.status_file] = e.state

LoadedFrom(b) ==
    /\ last.op = "reopen"
    /\ "read" \notin failing
    /\ status_file \in DOMAIN Before.storage
    /\ Before.storage[status_file] = b

\* every field of the state dict besides version and value is zero or empty
DefaultFields(st) ==
    \A k \in StateFields : k \in DOMAIN st /\ st[k] = FreshState(0)[k]

LoadedWithoutRecord ==
    /\ last.op = "reopen"
    /\ \/ "read" \in failing
       \/ status_file \notin DOMAIN Before.storage
       \/ Before.storage[status_file] \in {EmptyBytes, Unparseable, JsonArray}

\* C17: a load that finds no record, or whose read fails, or that reads
\* bytes that do not parse or do not hold a state object, ends (while the
\* store takes writes) with the default state in the engine and in the store.
C17_DefaultLoadedAndStored ==
    (LoadedWithoutRecord /\ "write" \notin failing) =>
        /\ value = 0
        /\ state = FreshState(0)
        /\ status_file \in DOMAIN storage
        /\ storage[status_file] = FreshState(0)

----------------------------------------------------------------------------
(* Failing services *)

\* C18: an update whose utterance reaches a failing sentiment source
\* completes as with counts (0, 0): nothing is raised to the caller and the
\* update returns a delta.
C18_SentimentFailureIsNeutral ==
    (Updated /\ Content # <<>> /\ "sentiment" \in failing) =>
        /\ ~last.raised
        /\ value_change # None
        /\ Get(state, "last_event_ts", 0) = now

\* the score s moved by d, kept within [min_value, max_value]
Clamped(s, d) == Max(min_value, Min(max_value, s + d))

\* C19: with the store refusing writes, change_manner_value, reset_value
\* and determine_manner_change (its decay step too) raise nothing and leave
\* the engine with the updated score, in _value and in the state dict: the
\* clamped sum, 0, the decayed score moved by the delta.  The store keeps
\* what it held.
C19_WriteFailureKeepsUpdate ==
    ("write" \in failing /\ "sentiment" \notin failing /\ Before.has_preset) =>
        /\ last.op = "change" =>
               /\ ~last.raised
               /\ value = Clamped(Before.value, last.amount)
               /\ state.value = value
               /\ state.last_change_ts = now
               /\ storage = Before.storage
        /\ last.op = "reset" =>
               /\ ~last.raised
               /\ value = 0
               /\ state.value = 0
               /\ storage = Before.storage
        /\ last.op = "determine" =>
               /\ ~last.raised
               /\ WholeIntervals >= 1 =>
                      Decayed.value = DecayedScore(Before.value, WholeIntervals)
               /\ value = IF Content = <<>> THEN Decayed.value
                          ELSE Clamped(Decayed.value, Delta)
               /\ state.value = value
               /\ storage = Before.storage

\* an update whose decay and whose delta both changed the score while the
\* store refused the writes
C19_Witness ==
    /\ "write" \in failing
    /\ last.op = "determine"
    /\ Before.has_preset
    /\ Processed
    /\ Decayed.value # Before.value
    /\ Delta # 0
    /\ value = Decayed.value + Delta
    /\ storage = Before.storage
    /\ Get(storage[status_file], "value", 0) = Before.value

----------------------------------------------------------------------------
(* Streaks *)

PosStreak(st) == Get(st, "pos_streak", 0)
NegStreak(st) == Get(st, "neg_streak", 0)

\* C20: in every state reached from the default state, pos_streak and
\* neg_streak are both >= 0 and at most one of them is not 0; an update
\* that returns delta 0 leaves each of them one lower than it found it, or
\* at 0.
C20_StreaksExclusive ==
    /\ PosStreak(state) >= 0
    /\ NegStreak(state) >= 0
    /\ PosStreak(state) = 0 \/ NegStreak(state) = 0
    /\ (Processed /\ Delta = 0) =>
           /\ PosStreak(state) = Max(0, PosStreak(Before.state) - 1)
           /\ NegStreak(state) = Max(0, NegStreak(Before.state) - 1)

\* an update that returned delta 0 and took a streak of 2 down to 1
C20_Witness ==
    /\ Processed
    /\ Delta = 0
    /\ PosStreak(Before.state) = 2
    /\ PosStreak(state) = 1
    /\ NegStreak(state) = 0

----------------------------------------------------------------------------
(* Repetition *)

RepeatCount(st) == Get(st, "repeat_count", 0)
Fingerprint(st) == Get(st, "last_user_text_norm", <<>>)

\* C21: in every state reached from the default state, repeat_count >= 1
\* exactly when the stored fingerprint is not empty and repeat_count = 0
\* exactly when it is empty, in the engine and in every stored record.
C21_CountMatchesFingerprint ==
    /\ RepeatCount(state) >= 0
    /\ RepeatCount(state) >= 1 <=> Fingerprint(state) # <<>>
    /\ RepeatCount(state) = 0 <=> Fingerprint(state) = <<>>
    /\ \A k \in DOMAIN storage :
           RepeatCount(storage[k]) >= 1 <=> Fingerprint(storage[k]) # <<>>

\* an utterance that differs from the one before it: the fingerprint
\* changed, and the count of 2 it found went to 1, not to 0
C21_Witness ==
    /\ Processed
    /\ Fingerprint(Before.state) # <<>>
    /\ Fingerprint(state) # <<>>
    /\ Fingerprint(state) # Fingerprint(Before.state)
    /\ RepeatCount(Before.state) = 2
    /\ RepeatCount(state) = 1

----------------------------------------------------------------------------
(* Streaks and the sign of the delta *)

\* C24 as stated: after an update whose delta is not positive pos_streak is
\* 0, and after one whose delta is not negative neg_streak is 0.
C24_ResetByNonPositive ==
    Processed =>
        /\ Delta <= 0 => PosStreak(state) = 0
        /\ Delta >= 0 => NegStreak(state) = 0

\* C24, amended: after an update whose delta is negative pos_streak is 0 and
\* neg_streak is one higher; after one whose delta is positive neg_streak is
\* 0 and pos_streak is one higher; a delta of 0 resets neither streak: a
\* streak of n >= 1 is n - 1 after it.
C24_ResetByOppositeSign ==
    Processed =>
        /\ Delta < 0 =>
               /\ PosStreak(state) = 0
               /\ NegStreak(state) = NegStreak(Before.state) + 1
        /\ Delta > 0 =>
               /\ NegStreak(state) = 0
               /\ PosStreak(state) = PosStreak(Before.state) + 1
        /\ Delta = 0 =>
               /\ PosStreak(Before.state) >= 1 =>
                      PosStreak(state) = PosStreak(Before.state) - 1
               /\ NegStreak(Before.state) >= 1 =>
                      NegStreak(state) = NegStreak(Before.state) - 1

\* a negative delta that ended a positive streak of 2
C24_Witness ==
    /\ Processed
    /\ Delta < 0
    /\ PosStreak(Before.state) = 2
    /\ PosStreak(state) = 0
    /\ NegStreak(state) = 1

----------------------------------------------------------------------------
(* The repeat multiplier and the utterance it is applied to *)

\* the update multiplied the base delta of its utterance by a repeat
\* multiplier other than 1 (lines 390-392, 400-402)
RepeatAdjusted ==
    /\ Processed
    /\ BaseOfContent # 0
    /\ RepeatMult(Decayed, BaseOfContent > 0) # <<1, 1>>

\* the utterance of the update has the fingerprint of the utterance before
\* it and comes within the repeat window of it
IsRepetition ==
    /\ NormalizeUserText(Content) # <<>>
    /\ NormalizeUserText(Content) = Fingerprint(Before.state)
    /\ now - Get(Before.state, "repeat_last_ts", 0) <= repeat_window_seconds

\* C25: the repeat multiplier is applied to an utterance only when the
\* utterance is itself a repetition: an utterance that differs from the one
\* before it, or comes after the repeat window, is not repeat-adjusted.
C25_OnlyRepetitionsAdjusted == RepeatAdjusted => IsRepetition

----------------------------------------------------------------------------
(* Decay and activity *)

\* the seconds since the last utterance the update found on record
SinceLastEvent == now - Get(Before.state, "last_event_ts", 0)

\* C26: the decay evaluation of an update never changes the score when an
\* utterance was processed less than one decay interval before it.
C26_NoDecayWhileActive ==
    (/\ Updated
     /\ Get(Before.state, "last_event_ts", 0) > 0
     /\ SinceLastEvent < decay_interval_seconds)
        => Decayed.value = Before.value

----------------------------------------------------------------------------
(* The delta reported and the change made *)

\* the change the delta step of the update made to the score
Applied == value - Decayed.value

\* the latest entry of recent_events
LatestEvent == state.recent_events[Len(state.recent_events)]

\* C28 as stated: the delta the update reports equals the change its delta
\* step made to the score.
C28_DeltaIsChangeMade == Processed => Delta = Applied

\* C28, amended: the delta the update reports is the amount it passed to
\* change_manner_value, and it is that amount that recent_events records and
\* the streak counts; the score ends at the decayed score plus the delta
\* clamped into [min_value, max_value], so the change made equals the delta
\* when that sum is within the bounds and is otherwise the part of it that
\* fits: of the same sign or 0, and smaller in magnitude.
C28_DeltaIsAmountPassed ==
    Processed =>
        /\ value = Clamped(Decayed.value, Delta)
        /\ (/\ min_value <= Decayed.value + Delta
            /\ Decayed.value + Delta <= max_value) => Applied = Delta
        /\ Applied * Delta >= 0
        /\ Abs(Applied) <= Abs(Delta)
        /\ Delta # 0 =>
               /\ state.recent_events # <<>>
               /\ LatestEvent = [ts |-> now, delta |-> Delta]
        /\ Delta > 0 => PosStreak(state) = PosStreak(Before.state) + 1

\* a positive delta at max_value: reported, recorded and counted in the
\* streak, while the score stayed where it was
C28_Witness ==
    /\ Processed
    /\ Decayed.value = max_value
    /\ Delta > 0
    /\ Applied = 0
    /\ LatestEvent.delta = Delta
    /\ PosStreak(state) = PosStreak(Before.state) + 1

----------------------------------------------------------------------------
(* last_change_ts *)

LastChangeTs(st) == Get(st, "last_change_ts", 0)

\* the decay evaluation, the load and its clamp, and the update that
\* returns delta 0 or has no utterance leave last_change_ts as it was
QuietPathsKeepLastChange ==
    /\ Updated => LastChangeTs(Decayed.state) = LastChangeTs(Before.state)
    /\ (Updated /\ Content = <<>>) =>
           LastChangeTs(state) = LastChangeTs(Before.state)
    /\ (Processed /\ Delta = 0) =>
           LastChangeTs(state) = LastChangeTs(Before.state)
    /\ \A b \in StoredBytes :
           (LoadedFrom(b) /\ IsDict(b)) =>
               LastChangeTs(state) = LastChangeTs(b)

\* C29: last_change_ts changes only when a non-zero delta is applied or on
\* reset: an update whose delta is 0, a decay evaluation, a clamp on load
\* and change_manner_value with amount 0 leave it unchanged.
C29_StampOnlyOnChange ==
    /\ QuietPathsKeepLastChange
    /\ (last.op = "change" /\ last.amount = 0) =>
           LastChangeTs(state) = LastChangeTs(Before.state)

----------------------------------------------------------------------------
(* The repeat state after an update *)

\* C30: an update with a non-empty normalised utterance leaves repeat_count
\* at the old count + 1 if the fingerprint equals the stored one and
\* now - repeat_last_ts is within the repeat window, and at 1 otherwise, and
\* sets the stored fingerprint and repeat_last_ts to the fingerprint of the
\* utterance and now; an utterance whose normalised text is empty sets
\* repeat_count to 0 and clears the fingerprint.
C30_RepeatStateAfterUpdate ==
    Processed =>
        \A norm \in {NormalizeUserText(Content)} :
            /\ Fingerprint(state) = norm
            /\ Get(state, "repeat_last_ts", 0) = now
            /\ norm = <<>> => RepeatCount(state) = 0
            /\ norm # <<>> =>
                   RepeatCount(state) =
                       IF /\ norm = Fingerprint(Before.state)
                          /\ now - Get(Before.state, "repeat_last_ts", 0)
                                 <= repeat_window_seconds
                       THEN RepeatCount(Before.state) + 1
                       ELSE 1

\* the utterance of the two updates before, sent again after the repeat
\* window: the count of 2 it found went back to 1
C30_Witness ==
    /\ Processed
    /\ NormalizeUserText(Content) # <<>>
    /\ NormalizeUserText(Content) = Fingerprint(Before.state)
    /\ now - Get(Before.state, "repeat_last_ts", 0) > repeat_window_seconds
    /\ RepeatCount(Before.state) = 2
    /\ RepeatCount(state) = 1
    /\ Get(state, "repeat_last_ts", 0) = now

----------------------------------------------------------------------------
(* The key the engine writes to *)

\* the key of the relationship the engine was last loaded for, when the
\* last operation was called: load_config sets _has_preset at every call,
\* to False for the character "off" alone
LoadedKey ==
    IF Before.has_preset THEN Before.status_file
    ELSE StatusFileOf("off", "u1")

\* C27: after load_config for a relationship, change_manner_value and
\* reset_value write to the key of that relationship and to no other key,
\* also when the character loaded is "off".
C27_WritesGoToLoadedKey ==
    last.op \in {"change", "reset"} =>
        \A k \in DOMAIN storage \ {LoadedKey} :
            k \in DOMAIN Before.storage /\ storage[k] = Before.storage[k]

\* with a character other than "off" loaded, the write went to its key
WritesGoToLoadedKeyUnlessOff ==
    (last.op \in {"change", "reset"} /\ Before.has_preset) =>
        /\ storage[LoadedKey] = state
        /\ \A k \in DOMAIN storage \ {LoadedKey} :
               k \in DOMAIN Before.storage /\ storage[k] = Before.storage[k]

----------------------------------------------------------------------------
(* Handlers in flight together *)

\* every handler has finished
AllDone == \A id \in TaskIds : tasks[id].pc = "done"

\* the key of the relationship the handler is about
KeyOf(task) == StatusFileOf(default_character, task.launcher)

\* the score the store sto holds under key, if it holds a record there
ScoreIn(sto, key) == IF key \in DOMAIN sto THEN Some(sto[key].value) ELSE None

\* the engine a command handler leaves when it runs with nothing else in
\* flight, on the store the handlers found
Alone(task) ==
    LET e == LoadConfig(NewEngine(last.before.storage), default_character,
                        task.launcher)
    IN  IF task.kind = "set"
        THEN ChangeMannerValue(e, task.target - e.value, now)
        ELSE e

\* a command about u1 and a command about u2 are the only handlers
TwoCommands ==
    /\ tasks["c1"].kind # "none"
    /\ tasks["c2"].kind # "none"
    /\ tasks["m"].kind = "none"

\* C22: a query or set for one identifier, interleaved at its await points
\* with one for another identifier on the plugin's shared engine, reads and
\* writes only its own score and record: it reports the score it reports
\* when run alone, and leaves the record of its identifier as it does when
\* run alone.
C22_CommandsIndependent ==
    TwoCommands =>
        \A id \in {"c1", "c2"} :
            \A alone \in {Alone(tasks[id])} :
                /\ tasks[id].pc = "done" =>
                       tasks[id].result = Some(alone.value)
                /\ AllDone =>
                       ScoreIn(storage, KeyOf(tasks[id]))
                           = ScoreIn(alone.storage, KeyOf(tasks[id]))

\* the handler is between the read of its load and its last save
InFlight(id) == tasks[id].pc \notin {"start", "done"}

\* a message of u1 and a set for u1 are the only handlers
MessageAndSet ==
    /\ tasks["m"].kind = "message"
    /\ tasks["c1"].kind = "set"
    /\ tasks["c2"].kind = "none"

\* the score the store holds when the set runs alone and the message
\* handler after it
ScoreSetThenMessage ==
    LET e1 == Alone(tasks["c1"])
        e2 == LoadConfig(NewEngine(e1.storage), default_character, "u1")
    IN  DetermineMannerChange(e2, tasks["m"].text,
                              MemoryWith(tasks["m"].text), now).value

\* the score the store holds when the set runs after the message handler
ScoreMessageThenSet ==
    Max(min_value,
        Min(CalcMaxValue(Get(Cards[default_character], "value_descriptions",
                             <<>>)),
            tasks["c1"].target))

\* the update of the set is in the score the store ends with
SetNotLost ==
    (MessageAndSet /\ AllDone) =>
        ScoreIn(storage, StatusFileOf(default_character, "u1"))
            \in {Some(ScoreSetThenMessage), Some(ScoreMessageThenSet)}

\* C23: the load-modify-persist sequence of a message-triggered update and
\* that of an affection set for the same identifier never interleave, so
\* neither update is lost.
C23_SameIdentifierSerialized ==
    /\ MessageAndSet => ~(InFlight("m") /\ InFlight("c1"))
    /\ SetNotLost

----------------------------------------------------------------------------
(* The delta pipeline *)

\* the rounded product of the multipliers the update computed, before the
\* clamp of line 416 (0 for a base delta of 0)
Amplified ==
    IF BaseOfContent = 0 THEN 0
    ELSE RoundWithoutClamp(FinalFloat(Decayed, BaseOfContent, now),
                           TieKey(Decayed, BaseOfContent, now) \in TieRoundsDown,
                           max_manner_change)

\* C31: every delta determine_manner_change returns satisfies
\* |delta| <= max_manner_change, whatever the level, streak and repeat
\* multipliers amplify the base delta to.
C31_DeltaWithinCap ==
    Processed => -max_manner_change <= Delta /\ Delta <= max_manner_change

\* the multipliers took the base delta beyond the cap, and the delta
\* returned is the cap
C31_Witness ==
    /\ Processed
    /\ Abs(Amplified) > max_manner_change
    /\ Abs(Delta) = max_manner_change

\* the last operation was an update given its hit counts
Analysed == last.op = "analyse"

\* the base delta of lines 204-215 for the counts of that update
BaseOfHits ==
    BaseChange(last.positive_num, last.negative_num, max_manner_change)

\* C32: whenever positive + negative > 0 and positive differs from
\* negative, the base delta passed to _apply_relationship_dynamics is
\* non-zero and has the sign of positive - negative, for every
\* max_manner_change >= 1; when positive equals negative it is 0.
C32_BaseDeltaHasMajoritySign ==
    (Analysed /\ last.positive_num + last.negative_num > 0) =>
        /\ Delta = ApplyRelationshipDynamics(Decayed, BaseOfHits, now)
        /\ last.positive_num # last.negative_num =>
               /\ BaseOfHits # 0
               /\ Sign(BaseOfHits) = Sign(last.positive_num - last.negative_num)
        /\ last.positive_num = last.negative_num => BaseOfHits = 0

\* one positive hit against two negative with a cap of 1: the product
\* rounds to 0 and the base delta is forced to -1
C32_Witness ==
    /\ Analysed
    /\ last.positive_num = 1 /\ last.negative_num = 2
    /\ max_manner_change = 1
    /\ BaseChangeWithoutForcing(1, 2, 1) = 0
    /\ BaseOfHits = -1
    /\ Delta = -1

\* the base deltas lines 214 and 180 can pass to the dynamics
BaseDeltas == (-max_manner_change)..max_manner_change

\* C33: _apply_relationship_dynamics never reverses direction: in every
\* state, for every base delta, its result is 0 or has the sign of the base
\* delta, and it is 0 when the base delta is 0; so is the delta of every
\* update.
C33_DynamicsKeepDirection ==
    /\ \A b \in BaseDeltas :
           \A d \in {ApplyRelationshipDynamics(Self, b, now)} :
               /\ d = 0 \/ Sign(d) = Sign(b)
               /\ b = 0 => d = 0
    /\ Processed =>
           /\ Delta = 0 \/ Sign(Delta) = Sign(BaseOfContent)
           /\ BaseOfContent = 0 => Delta = 0

\* an update inside the cooldown whose positive base delta the multipliers
\* took to 0, on an engine that takes the largest negative base delta to a
\* negative delta
C33_Witness ==
    /\ Processed
    /\ BaseOfContent > 0
    /\ ~OutsideCooldown
    /\ Delta = 0
    /\ ApplyRelationshipDynamics(Self, -max_manner_change, now) < 0

----------------------------------------------------------------------------
(* The bands *)

\* the band with the smallest max that is >= the score or, when no max is,
\* the band with the largest max
BandOfScore ==
    LET ds == manner_descriptions
        reaching == {i \in 1..Len(ds) : ds[i].max >= value}
        among == IF reaching = {} THEN 1..Len(ds) ELSE reaching
    IN  IF reaching = {}
        THEN CHOOSE i \in among : \A j \in among : ds[j].max <= ds[i].max
        ELSE CHOOSE i \in among : \A j \in among : ds[i].max <= ds[j].max

\* the bands are in ascending order of max
Ascending ==
    \A i, j \in 1..Len(manner_descriptions) :
        i < j => manner_descriptions[i].max < manner_descriptions[j].max

\* C34: for any configured band list, get_manner_description returns the
\* description (as _list_to_prompt_str renders it) of the band with the
\* smallest max that is >= the score; if no band's max is >= the score, that
\* of the band with the largest max; with no bands, the empty string.
C34_BandOfSmallestThreshold ==
    last.op \in {"check", "set"} =>
        GetMannerDescription(Self) =
            IF manner_descriptions = <<>> THEN <<>>
            ELSE ListToPromptStr(manner_descriptions[BandOfScore].description)

\* what does hold: the first band in the order of the card whose max is >=
\* the score, else the last band of the card; which is the band of C34 when
\* the card lists its bands in ascending order of max
BandsSelectedInCardOrder ==
    /\ manner_descriptions = <<>> => GetMannerDescription(Self) = <<>>
    /\ (manner_descriptions # <<>> /\ Ascending) =>
           GetMannerDescription(Self) =
               ListToPromptStr(manner_descriptions[BandOfScore].description)
    /\ \A i \in 1..Len(manner_descriptions) :
           (/\ manner_descriptions[i].max >= value
            /\ \A j \in 1..(i - 1) : manner_descriptions[j].max < value)
           => GetMannerDescription(Self) =
                  ListToPromptStr(manner_descriptions[i].description)

\* the largest max of the bands configured
HighestThreshold == MaxOfBands(manner_descriptions)

\* no bands configured, or a highest band threshold <= 0
Inconsistent == manner_descriptions = <<>> \/ HighestThreshold <= 0

----------------------------------------------------------------------------
(* Reset *)

\* the fields reset_value does not assign
FieldsResetKeeps == StateFields \ {"last_change_ts"}

\* C36: reset_value sets the score to 0, sets last_change_ts to the current
\* time and persists the record, and leaves every other field unchanged:
\* version (1 when the dict has none), last_event_ts, last_decay_ts,
\* recent_events, both streaks, fingerprint, repeat_count and
\* repeat_last_ts.
C36_ResetFrame ==
    last.op = "reset" =>
        /\ value = 0
        /\ state.value = 0
        /\ state.last_change_ts = now
        /\ status_file \in DOMAIN storage
        /\ storage[status_file] = state
        /\ state.version = Get(Before.state, "version", 1)
        /\ \A k \in FieldsResetKeeps :
               /\ k \in DOMAIN state <=> k \in DOMAIN Before.state
               /\ k \in DOMAIN state => state[k] = Before.state[k]
        /\ DOMAIN state \subseteq StateFields \cup {"version", "value"}

\* a reset of a relationship with a score, a streak, recent events and a
\* repeated utterance on record
C36_Witness ==
    /\ last.op = "reset"
    /\ Before.value # 0
    /\ Get(Before.state, "last_change_ts", 0) # now
    /\ Get(state, "pos_streak", 0) > 0
    /\ Get(state, "recent_events", <<>>) # <<>>
    /\ Get(state, "repeat_count", 0) >= 2
    /\ Get(state, "last_event_ts", 0) > 0
    /\ value = 0

----------------------------------------------------------------------------
(* The recent events *)

RecentEvents(st) == Get(st, "recent_events", <<>>)

\* the events on record that the update found inside the recent window
StillRecent ==
    SelectSeq(RecentEvents(Before.state),
              LAMBDA ev : ev.ts >= now - recent_window_seconds)

\* the last n entries of the sequence q
LastOf(q, n) == SubSeq(q, Len(q) - n + 1, Len(q))

\* C37: after every update, recent_events holds at most 60 entries, in
\* insertion order, each with a non-zero delta and a timestamp no older
\* than the recent window (600 s) before the time of the latest append; an
\* update with delta 0 adds no entry.
C37_RecentEventsBounded ==
    Updated =>
        \A events \in {RecentEvents(state)} :
            /\ Len(events) <= MaxRecentEvents
            /\ \A i \in 1..Len(events) :
                   /\ events[i].delta # 0
                   /\ events[i].ts >=
                          events[Len(events)].ts - recent_window_seconds
                   /\ \A j \in i..Len(events) : events[i].ts <= events[j].ts
            /\ IF Processed /\ Delta # 0
               THEN /\ events # <<>>
                    /\ events[Len(events)] = [ts |-> now, delta |-> Delta]
                    /\ Len(events) =
                           Min(MaxRecentEvents, Len(StillRecent) + 1)
                    /\ SubSeq(events, 1, Len(events) - 1) =
                           LastOf(StillRecent, Len(events) - 1)
               ELSE events = RecentEvents(Before.state)

\* an update with a non-zero delta that found 60 events inside the window:
\* the oldest made room for the new one
C37_Witness ==
    /\ Processed
    /\ Delta # 0
    /\ Len(StillRecent) = MaxRecentEvents
    /\ Len(RecentEvents(state)) = MaxRecentEvents
    /\ RecentEvents(state)[MaxRecentEvents] = [ts |-> now, delta |-> Delta]

----------------------------------------------------------------------------
(* Drift *)

\* C38: starting from any score, if only zero-delta utterances (trivial,
\* without sentiment hits) are processed and consecutive ones are at least
\* one decay interval apart, the score eventually reaches 0 and then stays
\* at 0.
C38_DriftsToZero == <>[](value = 0)

\* an update of a relationship that started at an extreme takes the last
\* unit off the score, after more than ninety that took one or a few each
C38_Witness ==
    /\ Updated
    /\ IsTrivialMessage(Content)
    /\ nops > 90
    /\ Abs(Before.value) = 1
    /\ value = 0

====
